---- MODULE Spec2Model ----
(***************************************************************************)
(* Persistence layer of the inventory application: the record type Item,   *)
(* the flat-file backend JSONRepository and the relational backend         *)
(* SQLiteRepository.  Both backends are driven in lockstep by the same     *)
(* call sequence, so that every state holds the two stores side by side.   *)
(*                                                                         *)
(* A Python str is a sequence of one-character strings; None is NoneVal;   *)
(* an absent id (Item.id = None) is NoId.                                  *)
(***************************************************************************)
EXTENDS Integers, Sequences, FiniteSets, TLC

VARIABLES
    items,    \* JSONRepository.items: the list of Item
    rows,     \* SQLite table items: the rows in rowid order
    seq,      \* SQLite sqlite_sequence entry of items (AUTOINCREMENT)
    jcustom,  \* JSONRepository.custom_values: category -> list of values
    jfile,    \* the document at JSONRepository.json_path
    jtmp,     \* the file at json_path.with_suffix('.tmp')
    scustom,  \* SQLite table custom_values: set of <<category, value>>
    columns,  \* SQLite table items: its column names in order, <<>> when the
              \* database has no such table
    migrated, \* SQLite table items_migrated: its rows, or NoTable
    connection,  \* SQLiteRepository.connection is set
    initialized, \* JSONRepository.initialize() has returned
    last      \* the last call (op, id, arg, filters), whether each store held
              \* the id before it (jfound, sfound), and what each backend
              \* answered: the error raised (jerr, serr), the records returned
              \* (jret, sret) and the count returned (jcnt, scnt)

vars == <<items, rows, seq, jcustom, jfile, jtmp, scustom, columns, migrated,
          connection, initialized, last>>

----------------------------------------------------------------------------
(* Bounds of the model *)

MaxSeq == 2     \* create is called MaxSeq times at most

----------------------------------------------------------------------------
(* Strings *)

NoneVal == << "<None>" >>
NoId == 0

IsNone(v) == v = NoneVal

WS == {" ", "\n"}

UpperAscii == <<"A","B","C","D","E","F","G","H","I","J","K","L","M",
                "N","O","P","Q","R","S","T","U","V","W","X","Y","Z">>
LowerAscii == <<"a","b","c","d","e","f","g","h","i","j","k","l","m",
                "n","o","p","q","r","s","t","u","v","w","x","y","z">>

\* the characters of the model in code point order
CharOrder == <<"\n", " ", "%", "0", "1", "2">> \o UpperAscii \o <<"_">>
             \o LowerAscii \o <<"Ä", "ä">>

Chars == {CharOrder[i] : i \in DOMAIN CharOrder}

\* ord(c), up to the gaps between the characters of the model
OrdTable == [c \in Chars |-> CHOOSE i \in DOMAIN CharOrder : CharOrder[i] = c]
Ord(c) == OrdTable[c]

\* ASCII case folding, as SQLite's LIKE and NOCASE do it: only the 26 upper
\* case characters of ASCII are folded
LowerTable ==
    [c \in Chars |->
        IF \E i \in 1..26 : UpperAscii[i] = c
        THEN LowerAscii[CHOOSE i \in 1..26 : UpperAscii[i] = c]
        ELSE c]

AsciiLowerChar(c) == LowerTable[c]

\* str.lower() of one character: Unicode case folding
PyLowerChar(c) == IF c = "Ä" THEN "ä" ELSE LowerTable[c]

PyLower(s) == [i \in 1..Len(s) |-> PyLowerChar(s[i])]

RECURSIVE LStrip(_)
LStrip(s) == IF s # <<>> /\ Head(s) \in WS THEN LStrip(Tail(s)) ELSE s

RECURSIVE RStrip(_)
RStrip(s) ==
    IF s # <<>> /\ s[Len(s)] \in WS THEN RStrip(SubSeq(s, 1, Len(s) - 1)) ELSE s

\* str.strip()
Strip(s) == RStrip(LStrip(s))

\* needle in hay
Contains(hay, needle) ==
    \E i \in 0..(Len(hay) - Len(needle)) :
        SubSeq(hay, i + 1, i + Len(needle)) = needle

EndsWith(s, suffix) ==
    /\ Len(s) >= Len(suffix)
    /\ SubSeq(s, Len(s) - Len(suffix) + 1, Len(s)) = suffix

\* str(None)
StrNone == <<"N","o","n","e">>

\* str(value) of an optional string
PyStr(v) == IF IsNone(v) THEN StrNone ELSE v

\* `value or ""` and truthiness of an optional string
OrEmpty(v) == IF IsNone(v) THEN <<>> ELSE v
Truthy(v) == ~IsNone(v) /\ v # <<>>

----------------------------------------------------------------------------
(* models.py: Item *)

TextFields == {"objekttyp", "hersteller", "modell", "seriennummer",
               "einkaufsdatum", "zuweisungsdatum", "aktueller_besitzer",
               "anmerkungen"}

MARKER == <<"S","t","i","l","l","g","e","l","e","g","t">>
marker_lower == <<"s","t","i","l","l","g","e","l","e","g","t">>

\* Item._normalize
Normalize(v) ==
    IF IsNone(v) THEN NoneVal
    ELSE IF Strip(v) = <<>> THEN NoneVal ELSE Strip(v)

\* Item.copy(id=...)
CopyId(item, id) == [item EXCEPT !.id = id]

\* the note of a record that is stillgelegt and does not carry the marker yet
AppendMarker(note) ==
    IF Strip(note) # <<>>
    THEN note \o (IF EndsWith(note, <<"\n">>) THEN <<>> ELSE <<"\n">>) \o MARKER
    ELSE MARKER

\* with_stillgelegt_note that leaves the notes alone
with_stillgelegt_note_Unchanged(item) == item

\* with_stillgelegt_note that does not look for the marker first
with_stillgelegt_note_Always(item) ==
    IF ~item.stillgelegt THEN item
    ELSE [item EXCEPT !.anmerkungen = AppendMarker(OrEmpty(item.anmerkungen))]

\* Item.with_stillgelegt_note
with_stillgelegt_note(item) ==
    IF ~item.stillgelegt THEN item
    ELSE IF Contains(PyLower(OrEmpty(item.anmerkungen)), marker_lower) THEN item
    ELSE [item EXCEPT !.anmerkungen = AppendMarker(OrEmpty(item.anmerkungen))]

\* Item.from_row on a row of the items table
from_row(row) ==
    [id |-> row.id,
     objekttyp |-> Normalize(row.objekttyp),
     hersteller |-> Normalize(row.hersteller),
     modell |-> Normalize(row.modell),
     seriennummer |-> Normalize(row.seriennummer),
     einkaufsdatum |-> Normalize(row.einkaufsdatum),
     zuweisungsdatum |-> Normalize(row.zuweisungsdatum),
     aktueller_besitzer |-> Normalize(row.aktueller_besitzer),
     anmerkungen |-> Normalize(row.anmerkungen),
     stillgelegt |-> row.stillgelegt # 0]


\* Item.to_dict: the dictionary json.dump writes for one Item
to_dict(item) ==
    [id |-> item.id,
     objekttyp |-> item.objekttyp,
     hersteller |-> item.hersteller,
     modell |-> item.modell,
     seriennummer |-> item.seriennummer,
     einkaufsdatum |-> item.einkaufsdatum,
     zuweisungsdatum |-> item.zuweisungsdatum,
     aktueller_besitzer |-> item.aktueller_besitzer,
     anmerkungen |-> item.anmerkungen,
     stillgelegt |-> item.stillgelegt]

Range(s) == {s[i] : i \in DOMAIN s}

MaxOf(S) == CHOOSE m \in S : \A x \in S : x <= m

----------------------------------------------------------------------------
(* repository.py: RepositoryError, and the outcome of a call *)

NoError == ""
NotFound == "Item nicht gefunden"
NotInitialized == "SQLite Verbindung nicht initialisiert"

\* what a call leaves behind: the store, the returned records (<<>> when the
\* call returns None or raises), the returned count and the error raised
Outcome(store, ret, cnt, err) ==
    [store |-> store, ret |-> ret, cnt |-> cnt, err |-> err]

----------------------------------------------------------------------------
(* json_repo.py: JSONRepository *)

\* a _next_id that takes 1 for the largest id of an empty store
JsonNextId_DefaultOne(its) == MaxOf({its[i].id : i \in DOMAIN its} \cup {1}) + 1

\* JSONRepository._next_id
JsonNextId(its) == MaxOf({its[i].id : i \in DOMAIN its} \cup {0}) + 1

JsonIds(its) == {its[i].id : i \in DOMAIN its}

\* index of the first record with this id (the for loops of update/deactivate)
JsonIndexOf(its, id) ==
    CHOOSE i \in DOMAIN its :
        its[i].id = id /\ \A j \in 1..(i - 1) : its[j].id # id

\* JSONRepository.get
JsonGet(its, id) ==
    IF id \in JsonIds(its)
    THEN <<with_stillgelegt_note(its[JsonIndexOf(its, id)])>>
    ELSE <<>>

\* an id for create that prefers the id the record carries
JsonCreateId_FromRecord(its, item) ==
    IF item.id # NoId THEN item.id ELSE JsonNextId(its)

\* the id JSONRepository.create gives the new record: copy(id=self._next_id())
JsonCreateId(its, item) == JsonNextId(its)

\* JSONRepository.create
JsonCreate(its, item) ==
    LET new_item == CopyId(with_stillgelegt_note(item), JsonCreateId(its, item))
    IN  Outcome(Append(its, new_item), <<new_item>>, 0, NoError)

\* update that keeps the id the record carries
JsonUpdateStored_KeepsRecordId(item_id, item) == with_stillgelegt_note(item)

\* the record JSONRepository.update puts at the slot of item_id
JsonUpdateStored(item_id, item) == CopyId(with_stillgelegt_note(item), item_id)

\* JSONRepository.update
JsonUpdate(its, item_id, item) ==
    IF item_id \in JsonIds(its)
    THEN LET index == JsonIndexOf(its, item_id)
             stored == JsonUpdateStored(item_id, item)
         IN  Outcome([its EXCEPT ![index] = stored], <<stored>>, 0, NoError)
    ELSE Outcome(its, <<>>, 0, NotFound)

\* delete that raises for an id no record has, as update does
JsonDelete_Strict(its, item_id) ==
    IF item_id \in JsonIds(its)
    THEN Outcome(SelectSeq(its, LAMBDA it : it.id # item_id), <<>>, 0, NoError)
    ELSE Outcome(its, <<>>, 0, NotFound)

\* JSONRepository.delete
JsonDelete(its, item_id) ==
    Outcome(SelectSeq(its, LAMBDA it : it.id # item_id), <<>>, 0, NoError)

\* JSONRepository.deactivate
JsonDeactivate(its, item_id) ==
    IF item_id \in JsonIds(its)
    THEN LET index == JsonIndexOf(its, item_id)
             updated == with_stillgelegt_note([its[index] EXCEPT !.stillgelegt = TRUE])
         IN  Outcome([its EXCEPT ![index] = updated], <<updated>>, 0, NoError)
    ELSE Outcome(its, <<>>, 0, NotFound)


\* JSONRepository._save: the document json.dump writes to the file
JsonSave(its, custom) ==
    [items |-> [i \in DOMAIN its |-> to_dict(its[i])], custom_values |-> custom]

\* a < b for two str
RECURSIVE StrLess(_, _)
StrLess(a, b) ==
    IF b = <<>> THEN FALSE
    ELSE IF a = <<>> THEN TRUE
    ELSE IF Head(a) = Head(b) THEN StrLess(Tail(a), Tail(b))
    ELSE Ord(Head(a)) < Ord(Head(b))

\* One component of a sort key: <<0, <<>>>> is SQL NULL, which sorts before
\* every text; <<1, s>> is the text s.
TextKey(s) == <<1, s>>
NullKey == <<0, <<>>>>

CompLess(a, b) == a[1] < b[1] \/ (a[1] = b[1] /\ StrLess(a[2], b[2]))

\* comparison of two-component sort keys, first component first
KeyLess(k, l) == CompLess(k[1], l[1]) \/ (k[1] = l[1] /\ CompLess(k[2], l[2]))

\* insert entry x = [key, val] behind every entry that is not greater
RECURSIVE InsertSorted(_, _)
InsertSorted(sorted, x) ==
    IF sorted = <<>> THEN <<x>>
    ELSE IF KeyLess(x.key, Head(sorted).key) THEN <<x>> \o sorted
    ELSE <<Head(sorted)>> \o InsertSorted(Tail(sorted), x)

RECURSIVE SortEntries(_)
SortEntries(s) ==
    IF s = <<>> THEN <<>>
    ELSE InsertSorted(SortEntries(SubSeq(s, 1, Len(s) - 1)), s[Len(s)])

\* a stable sort of s by the keys Key(s[i]), as sorted(key=...) and ORDER BY
StableSort(s, Key(_)) ==
    LET sorted == SortEntries([i \in DOMAIN s |-> [key |-> Key(s[i]), val |-> s[i]]])
    IN  [i \in DOMAIN sorted |-> sorted[i].val]

\* the sort key of JSONRepository._sorted_items
JsonSortKey(item) ==
    <<TextKey(PyLower(OrEmpty(item.objekttyp))), TextKey(PyLower(OrEmpty(item.modell)))>>

\* JSONRepository._sorted_items
JsonSortedItems(its) == StableSort(its, JsonSortKey)

\* JSONRepository._ensure_stillgelegt_notes: the repaired list
JsonEnsureNotes(its) == [i \in DOMAIN its |-> with_stillgelegt_note(its[i])]

GLOBAL == "__global__"

\* the fields the global search looks at (allowed_keys)
AllowedKeys == TextFields

\* The filters argument of list: <<>> is None, <<d>> is the dict d, a set of
\* <<key, value>> pairs with one pair for each key.
NoFilters == <<>>
FilterKeys(filters) == {kv[1] : kv \in filters[1]}
FilterValue(filters, key) == (CHOOSE kv \in filters[1] : kv[1] = key)[2]

\* filters.pop('__global__', None)
GlobalSearch(filters) ==
    IF GLOBAL \in FilterKeys(filters) THEN FilterValue(filters, GLOBAL) ELSE NoneVal

\* value_lower in str(getattr(item, key, '')).lower()
JsonFieldMatches(item, key, value) ==
    Contains(PyLower(PyStr(item[key])), PyLower(value))

\* a match in which the global search is an alternative to the per-field
\* filters
JsonMatches_AnyCondition(item, filters) ==
    \/ /\ FilterKeys(filters) \ {GLOBAL} # {}
       /\ \A key \in FilterKeys(filters) \ {GLOBAL} :
              Truthy(FilterValue(filters, key)) =>
                  JsonFieldMatches(item, key, FilterValue(filters, key))
    \/ /\ Truthy(GlobalSearch(filters))
       /\ \E key \in AllowedKeys :
              JsonFieldMatches(item, key, GlobalSearch(filters))
    \/ FilterKeys(filters) = {}

\* the per-field loop and the global search of JSONRepository.list
JsonMatches(item, filters) ==
    /\ \A key \in FilterKeys(filters) \ {GLOBAL} :
           Truthy(FilterValue(filters, key)) =>
               JsonFieldMatches(item, key, FilterValue(filters, key))
    /\ Truthy(GlobalSearch(filters)) =>
           \E key \in AllowedKeys :
               JsonFieldMatches(item, key, GlobalSearch(filters))

\* JSONRepository.list
JsonList(its, filters) ==
    LET repaired == JsonEnsureNotes(its)
        filtered == IF filters = NoFilters THEN repaired
                    ELSE SelectSeq(repaired, LAMBDA it : JsonMatches(it, filters))
    IN  Outcome(repaired,
                JsonSortedItems([i \in DOMAIN filtered |->
                                    with_stillgelegt_note(filtered[i])]),
                0, NoError)

DEFAULT_OWNER == <<"L","A","G","E","R">>

\* the loop shared by the clear_* methods of JSONRepository
JsonClearField(its, field, value, empty) ==
    Outcome([i \in DOMAIN its |->
                IF its[i][field] = value THEN [its[i] EXCEPT ![field] = empty]
                ELSE its[i]],
            <<>>,
            Cardinality({i \in DOMAIN its : its[i][field] = value}),
            NoError)

\* JSONRepository.clear_owner
JsonClearOwner(its, owner) ==
    IF Strip(owner) = <<>> \/ PyLower(Strip(owner)) = PyLower(DEFAULT_OWNER)
    THEN Outcome(its, <<>>, 0, NoError)
    ELSE JsonClearField(its, "aktueller_besitzer", Strip(owner), DEFAULT_OWNER)

\* JSONRepository.clear_serial_number / clear_object_type /
\* clear_manufacturer / clear_model
JsonClear(its, field, value) ==
    IF Strip(value) = <<>> THEN Outcome(its, <<>>, 0, NoError)
    ELSE JsonClearField(its, field, Strip(value), <<>>)

\* a set of str as a sequence in ascending order of Key
RECURSIVE SetToSeq(_)
SetToSeq(T) ==
    IF T = {} THEN <<>>
    ELSE LET x == CHOOSE y \in T : \A z \in T : ~StrLess(z, y)
         IN  <<x>> \o SetToSeq(T \ {x})

\* JSONRepository.distinct_owners / distinct_object_types / ...:
\* sorted(set of the truthy values of the field)
JsonDistinct(its, field) ==
    SetToSeq({its[i][field] : i \in {j \in DOMAIN its : Truthy(its[j][field])}})

\* JSONRepository._normalize_values
RECURSIVE DedupValues(_, _)
DedupValues(values, seen) ==
    IF values = <<>> THEN <<>>
    ELSE LET text == Strip(Head(values))
         IN  IF text = <<>> \/ PyLower(text) \in seen
             THEN DedupValues(Tail(values), seen)
             ELSE <<text>> \o DedupValues(Tail(values), seen \cup {PyLower(text)})

CasefoldKey(v) == <<TextKey(PyLower(v)), TextKey(<<>>)>>

JsonNormalizeValues(values) == StableSort(DedupValues(values, {}), CasefoldKey)

\* self.custom_values.get(category, [])
CustomGet(custom, category) ==
    IF category \in DOMAIN custom THEN custom[category] ELSE <<>>

\* custom with custom[category] = values
CustomSet(custom, category, values) ==
    [c \in DOMAIN custom \cup {category} |->
        IF c = category THEN values ELSE custom[c]]

\* JSONRepository.add_custom_value
JsonAddCustomValue(custom, category, value) ==
    CustomSet(custom, category,
              JsonNormalizeValues(Append(CustomGet(custom, category), value)))

\* JSONRepository.remove_custom_value
JsonRemoveCustomValue(custom, category, value) ==
    LET values == SelectSeq(CustomGet(custom, category),
                            LAMBDA e : PyLower(e) # PyLower(value))
    IN  IF values # <<>> THEN CustomSet(custom, category, JsonNormalizeValues(values))
        ELSE [c \in DOMAIN custom \ {category} |-> custom[c]]

\* What json_path can hold: no file, a file json.load cannot read, a document
\* that is a list of entries (FileList) or the document _save writes.
NoFile == [missing |-> TRUE]
CorruptFile == [corrupt |-> TRUE]
FileList(entries) == [list |-> entries]

JSONDecodeError == "JSONDecodeError"
OSError == "OSError"

\* what initialize leaves: the in-memory state, the file and the error raised
Loaded(its, custom, file, err) ==
    [items |-> its, custom |-> custom, file |-> file, err |-> err]

\* the custom_values comprehension of JSONRepository._load
JsonLoadCustom(custom) ==
    [c \in DOMAIN custom |-> JsonNormalizeValues(custom[c])]

\* Item.from_row on an entry of the file, whose stillgelegt is a JSON boolean
from_entry(entry) ==
    from_row([entry EXCEPT !.stillgelegt = IF entry.stillgelegt THEN 1 ELSE 0])

\* JSONRepository._load, called on a JSONRepository as __init__ left it
JsonLoad(file) ==
    IF "corrupt" \in DOMAIN file THEN Loaded(<<>>, <<>>, file, JSONDecodeError)
    ELSE IF "list" \in DOMAIN file
         THEN Loaded([i \in DOMAIN file.list |-> from_entry(file.list[i])], <<>>,
                     file, NoError)
    ELSE Loaded([i \in DOMAIN file.items |-> from_entry(file.items[i])],
                JsonLoadCustom(file.custom_values), file, NoError)

\* JSONRepository.initialize; io_fails: opening the file raises OSError
JsonInitialize(file, io_fails) ==
    IF io_fails THEN Loaded(<<>>, <<>>, file, OSError)
    ELSE IF "missing" \in DOMAIN file
         THEN Loaded(<<>>, <<>>, JsonSave(<<>>, <<>>), NoError)
    ELSE JsonLoad(file)

\* a file that holds the beginning of a document
PartialFile == [partial |-> TRUE]

\* The points at which _save can stop: 0 is tmp_path.open raising, 1 is
\* json.dump raising or the process ending with the document half written,
\* 2 is tmp_path.replace raising or the process ending ahead of it, 3 is
\* _save returning.
SaveSteps == <<"open", "dump", "replace">>
SaveStops == 0..Len(SaveSteps)

\* the two files after a write, and the error raised
Written(file, tmp, err) == [file |-> file, tmp |-> tmp, err |-> err]

\* a _save that writes the document to json_path itself
Save_InPlace(file, tmp, doc, stop) ==
    CASE stop = 0 -> Written(file, tmp, OSError)
      [] stop = 1 -> Written(PartialFile, tmp, OSError)
      [] OTHER -> Written(doc, tmp, NoError)

\* JSONRepository._save of the document doc, stopping at stop
Save(file, tmp, doc, stop) ==
    CASE stop = 0 -> Written(file, tmp, OSError)
      [] stop = 1 -> Written(file, PartialFile, OSError)
      [] stop = 2 -> Written(file, doc, OSError)
      [] OTHER -> Written(doc, NoFile, NoError)

----------------------------------------------------------------------------
(* sqlite_repo.py: SQLiteRepository *)

\* the columns of the items table of SCHEMA, and `expected` of _migrate_schema
ExpectedColumns ==
    <<"id", "objekttyp", "hersteller", "modell", "seriennummer", "einkaufsdatum",
      "zuweisungsdatum", "aktueller_besitzer", "anmerkungen", "stillgelegt">>

\* no table of that name in the database
NoTable == << "<NoTable>" >>

\* SQLiteRepository._db_value
DbValue(v) ==
    IF IsNone(v) THEN NoneVal
    ELSE IF Strip(v) = <<>> THEN NoneVal ELSE Strip(v)

AsciiLower(s) == [i \in 1..Len(s) |-> AsciiLowerChar(s[i])]

\* the column values create and update bind to the statement
DbRow(item, id) ==
    [id |-> id,
     objekttyp |-> DbValue(item.objekttyp),
     hersteller |-> DbValue(item.hersteller),
     modell |-> DbValue(item.modell),
     seriennummer |-> DbValue(item.seriennummer),
     einkaufsdatum |-> DbValue(item.einkaufsdatum),
     zuweisungsdatum |-> DbValue(item.zuweisungsdatum),
     aktueller_besitzer |-> DbValue(item.aktueller_besitzer),
     anmerkungen |-> DbValue(item.anmerkungen),
     stillgelegt |-> IF item.stillgelegt THEN 1 ELSE 0]

SqlIds(rs) == {rs[i].id : i \in DOMAIN rs}

\* id INTEGER PRIMARY KEY AUTOINCREMENT: one more than the largest rowid the
\* table has ever held
SqlNextId(rs, sq) == MaxOf(SqlIds(rs) \cup {sq}) + 1

\* the database: the rows of items and its sqlite_sequence entry
Db(rs, sq) == [rows |-> rs, seq |-> sq]

\* SQLiteRepository.get
SqlGet(rs, item_id) ==
    IF item_id \in SqlIds(rs)
    THEN <<with_stillgelegt_note(
              from_row(rs[CHOOSE i \in DOMAIN rs : rs[i].id = item_id]))>>
    ELSE <<>>

\* SQLiteRepository.create
SqlCreate(rs, sq, item) ==
    LET noted == with_stillgelegt_note(item)
        lastrowid == SqlNextId(rs, sq)
    IN  Outcome(Db(Append(rs, DbRow(noted, lastrowid)), lastrowid),
                <<CopyId(noted, lastrowid)>>, 0, NoError)

\* SQLiteRepository.update: the UPDATE statement changes no row when no row
\* has the id, and the method returns as if it had
SqlUpdate(rs, sq, item_id, item) ==
    LET noted == with_stillgelegt_note(item)
    IN  Outcome(Db([i \in DOMAIN rs |->
                        IF rs[i].id = item_id THEN DbRow(noted, item_id)
                        ELSE rs[i]], sq),
                <<CopyId(noted, item_id)>>, 0, NoError)

\* SQLiteRepository.delete
SqlDelete(rs, sq, item_id) ==
    Outcome(Db(SelectSeq(rs, LAMBDA r : r.id # item_id), sq), <<>>, 0, NoError)

\* SQLiteRepository.deactivate
SqlDeactivate(rs, sq, item_id) ==
    IF SqlGet(rs, item_id) = <<>>
    THEN Outcome(Db(rs, sq), <<>>, 0, NotFound)
    ELSE LET item == SqlGet(rs, item_id)[1]
             updated == with_stillgelegt_note([item EXCEPT !.stillgelegt = TRUE])
         IN  Outcome(Db([i \in DOMAIN rs |->
                            IF rs[i].id = item_id
                            THEN [rs[i] EXCEPT !.stillgelegt = 1,
                                               !.anmerkungen = updated.anmerkungen]
                            ELSE rs[i]], sq),
                     <<updated>>, 0, NoError)

\* text LIKE pattern, without ESCAPE: % is any run of characters, _ is any
\* one character, letters compare ignoring ASCII case
RECURSIVE Like(_, _)
Like(text, pattern) ==
    IF pattern = <<>> THEN text = <<>>
    ELSE IF Head(pattern) = "%"
         THEN Like(text, Tail(pattern)) \/ (text # <<>> /\ Like(Tail(text), pattern))
    ELSE /\ text # <<>>
         /\ \/ Head(pattern) = "_"
            \/ AsciiLowerChar(Head(pattern)) = AsciiLowerChar(Head(text))
         /\ Like(Tail(text), Tail(pattern))

\* column LIKE '%value%' on a row; NULL LIKE ... is not true
SqlFieldMatches(row, key, value) ==
    /\ ~IsNone(row[key])
    /\ Like(row[key], <<"%">> \o value \o <<"%">>)

\* the WHERE clause SQLiteRepository.list builds
SqlMatches(row, filters) ==
    IF filters = NoFilters \/ filters[1] = {} THEN TRUE
    ELSE /\ \A key \in (FilterKeys(filters) \ {GLOBAL}) \cap AllowedKeys :
                Truthy(FilterValue(filters, key)) =>
                    SqlFieldMatches(row, key, FilterValue(filters, key))
         /\ Truthy(GlobalSearch(filters)) =>
                \E key \in AllowedKeys :
                    SqlFieldMatches(row, key, GlobalSearch(filters))

\* one column under COLLATE NOCASE
NocaseKey(v) == IF IsNone(v) THEN NullKey ELSE TextKey(AsciiLower(v))

\* ORDER BY objekttyp COLLATE NOCASE, modell COLLATE NOCASE
SqlSortKey(row) == <<NocaseKey(row.objekttyp), NocaseKey(row.modell)>>

\* SQLiteRepository.list
SqlList(rs, sq, filters) ==
    LET selected == StableSort(SelectSeq(rs, LAMBDA r : SqlMatches(r, filters)),
                               SqlSortKey)
        result == [i \in DOMAIN selected |-> with_stillgelegt_note(from_row(selected[i]))]
        Repaired(r) ==
            IF SqlMatches(r, filters)
               /\ with_stillgelegt_note(from_row(r)).anmerkungen # from_row(r).anmerkungen
               /\ r.id # NoId
            THEN [r EXCEPT !.anmerkungen = with_stillgelegt_note(from_row(r)).anmerkungen]
            ELSE r
    IN  Outcome(Db([i \in DOMAIN rs |-> Repaired(rs[i])], sq), result, 0, NoError)

\* UPDATE items SET field = empty WHERE field = value; cursor.rowcount
SqlClearField(rs, sq, field, value, empty) ==
    Outcome(Db([i \in DOMAIN rs |->
                   IF rs[i][field] = value THEN [rs[i] EXCEPT ![field] = empty]
                   ELSE rs[i]], sq),
            <<>>,
            Cardinality({i \in DOMAIN rs : rs[i][field] = value}),
            NoError)

\* owner.strip().lower() == DEFAULT_OWNER.lower(), the early return of
\* SQLiteRepository.clear_owner
IsDefaultOwner(owner) == PyLower(Strip(owner)) = PyLower(DEFAULT_OWNER)

\* SQLiteRepository.clear_owner
SqlClearOwner(rs, sq, owner) ==
    IF IsDefaultOwner(owner)
    THEN Outcome(Db(rs, sq), <<>>, 0, NoError)
    ELSE SqlClearField(rs, sq, "aktueller_besitzer", owner, DEFAULT_OWNER)

\* SQLiteRepository.clear_serial_number / clear_object_type /
\* clear_manufacturer / clear_model
SqlClear(rs, sq, field, value) == SqlClearField(rs, sq, field, value, <<>>)

\* SQLiteRepository.distinct_owners / distinct_object_types / ...: the values
\* SELECT DISTINCT field FROM items WHERE field <> '' yields (NULL <> '' is
\* not true), without the falsy ones
SqlDistinctValues(rs, field) ==
    {rs[i][field] : i \in {j \in DOMAIN rs : Truthy(rs[j][field])}}

\* the orders of a set of str that ascend under COLLATE NOCASE; SQL leaves the
\* order of values that are equal under the collation open
NocaseOrders(T) ==
    {f \in [1..Cardinality(T) -> T] :
        /\ \A i, j \in 1..Cardinality(T) : i # j => f[i] # f[j]
        /\ \A i, j \in 1..Cardinality(T) :
               i < j => ~StrLess(AsciiLower(f[j]), AsciiLower(f[i]))}

\* SQLiteRepository.distinct_*: SELECT DISTINCT field ... ORDER BY field
\* COLLATE NOCASE, the results the statement can give
SqlDistinct(rs, field) == NocaseOrders(SqlDistinctValues(rs, field))

\* SQLiteRepository.list_custom_values: SELECT value ... WHERE category = ?
\* ORDER BY value COLLATE NOCASE, the results the statement can give
SqlListCustomValues(custom, category) ==
    NocaseOrders({e[2] : e \in {d \in custom : d[1] = category /\ d[2] # <<>>}})

\* SQLiteRepository.add_custom_value: INSERT OR IGNORE under
\* UNIQUE(category, value COLLATE NOCASE)
SqlAddCustomValue(custom, category, value) ==
    IF Strip(value) = <<>> THEN custom
    ELSE IF \E e \in custom :
                e[1] = category /\ AsciiLower(e[2]) = AsciiLower(Strip(value))
         THEN custom
         ELSE custom \cup {<<category, Strip(value)>>}

\* SQLiteRepository.remove_custom_value
SqlRemoveCustomValue(custom, category, value) ==
    IF Strip(value) = <<>> THEN custom
    ELSE custom \ {<<category, Strip(value)>>}

----------------------------------------------------------------------------
(* sqlite_repo.py: initialize and _migrate_schema *)

\* the database file: the items table (columns, rows, its sqlite_sequence
\* entry) and the items_migrated table
Database(cols, rs, mig, sq) ==
    [columns |-> cols, rows |-> rs, migrated |-> mig, seq |-> sq]

\* executescript(SCHEMA): CREATE TABLE IF NOT EXISTS items
Schema(db) ==
    IF db.columns = <<>> THEN [db EXCEPT !.columns = ExpectedColumns, !.rows = <<>>]
    ELSE db

\* a migration that also copies a table of the current layout
NeedsMigration_Always(db) == db.columns # <<>>

\* `if not columns or columns == expected: return`, negated
NeedsMigration(db) == db.columns # <<>> /\ db.columns # ExpectedColumns

\* COALESCE(column, '')
Coalesce(v) == IF IsNone(v) THEN <<>> ELSE v

\* the zuweisungsdatum of the copy when the column is taken to be absent
CopiedAssignment_Dropped(row, cols) == <<>>

\* the {zuweisungsdatum} part of copy_query
CopiedAssignment(row, cols) ==
    IF "zuweisungsdatum" \in Range(cols) THEN Coalesce(row.zuweisungsdatum) ELSE <<>>

\* one row of the SELECT of copy_query; the flag of a row of the model is
\* never NULL, so COALESCE(stillgelegt, 0) is the flag
MigratedRow(row, cols) ==
    [id |-> row.id,
     objekttyp |-> Coalesce(row.objekttyp),
     hersteller |-> Coalesce(row.hersteller),
     modell |-> Coalesce(row.modell),
     seriennummer |-> Coalesce(row.seriennummer),
     einkaufsdatum |-> Coalesce(row.einkaufsdatum),
     zuweisungsdatum |-> CopiedAssignment(row, cols),
     aktueller_besitzer |-> Coalesce(row.aktueller_besitzer),
     anmerkungen |-> Coalesce(row.anmerkungen),
     stillgelegt |-> IF "stillgelegt" \in Range(cols) THEN row.stillgelegt ELSE 0]

\* the statements of _migrate_schema behind the early return
MigrationStatements == <<"create", "insert", "drop", "rename", "commit">>

\* the effect of one statement on the database
Execute(db, statement) ==
    CASE statement = "create" ->
            IF db.migrated = NoTable THEN [db EXCEPT !.migrated = <<>>] ELSE db
      [] statement = "insert" ->
            [db EXCEPT !.migrated =
                db.migrated \o [i \in DOMAIN db.rows |-> MigratedRow(db.rows[i], db.columns)]]
      [] statement = "drop" ->
            [db EXCEPT !.columns = <<>>, !.rows = <<>>, !.seq = 0]
      [] statement = "rename" ->
            Database(ExpectedColumns, db.migrated, NoTable,
                     MaxOf(SqlIds(db.migrated) \cup {0}))
      [] OTHER -> db

\* sqlite3 commits an open transaction ahead of a CREATE/DROP/ALTER statement
DdlCommitsFirst_Always == TRUE

\* sqlite3 leaves an open transaction open at a CREATE/DROP/ALTER statement
\* (the connection's default isolation_level)
DdlCommitsFirst == FALSE

\* A connection at work: the database as the connection sees it (live), as
\* the file holds it (durable), and whether a transaction is open.  sqlite3
\* opens a transaction ahead of an INSERT; a statement outside a transaction
\* is durable at once.
Session(live, durable, open) == [live |-> live, durable |-> durable, open |-> open]

Step(ses, statement) ==
    IF statement = "commit" THEN Session(ses.live, ses.live, FALSE)
    ELSE IF statement = "insert"
         THEN Session(Execute(ses.live, statement), ses.durable, TRUE)
    ELSE LET open == ses.open /\ ~DdlCommitsFirst
             live == Execute(ses.live, statement)
         IN  Session(live, IF open THEN ses.durable ELSE live, open)

\* the connection after the first k statements of _migrate_schema
RECURSIVE RunMigration(_, _)
RunMigration(db, k) ==
    IF k = 0 THEN Session(db, db, FALSE)
    ELSE Step(RunMigration(db, k - 1), MigrationStatements[k])

OperationalError == "sqlite3.OperationalError"

\* The points at which initialize can stop: -1 is sqlite3.connect raising, k
\* in 0..4 is the k-th statement of _migrate_schema having run and the next
\* one raising (or the process ending there), 5 is initialize returning.
Stops(db) ==
    IF NeedsMigration(Schema(db)) THEN (-1)..Len(MigrationStatements)
    ELSE {-1, Len(MigrationStatements)}

\* SQLiteRepository.initialize stopping at stop: the file afterwards and the
\* error raised
SqlInitialize(db, stop) ==
    IF stop = -1 THEN [db |-> db, err |-> OperationalError]
    ELSE IF ~NeedsMigration(Schema(db)) THEN [db |-> Schema(db), err |-> NoError]
    ELSE IF stop < Len(MigrationStatements)
         THEN [db |-> RunMigration(Schema(db), stop).durable, err |-> OperationalError]
    ELSE [db |-> Schema(RunMigration(Schema(db), stop).durable), err |-> NoError]

----------------------------------------------------------------------------
(* repository.py: RepositoryFactory *)

\* RepositoryFactory.create: the backend and flag returned, or the error that
\* reaches the caller; json_err is what JSONRepository.initialize raises when
\* it is called
Created(repo, fallback, raised) ==
    [repo |-> repo, fallback |-> fallback, raised |-> raised]

\* create without the fallback flag
FactoryResult_NoFlag(sqlite_err, json_err) ==
    IF sqlite_err = NoError THEN Created("sqlite", FALSE, NoError)
    ELSE IF json_err = NoError THEN Created("json", FALSE, NoError)
    ELSE Created("", FALSE, json_err)

FactoryResult(sqlite_err, json_err) ==
    IF sqlite_err = NoError THEN Created("sqlite", FALSE, NoError)
    ELSE IF json_err = NoError THEN Created("json", TRUE, NoError)
    ELSE Created("", FALSE, json_err)

----------------------------------------------------------------------------
(* item_dialog.py: ItemDialog *)

\* str.splitlines() of a text whose line breaks are "\n"
RECURSIVE SplitLines(_)
SplitLines(text) ==
    IF text = <<>> THEN <<>>
    ELSE IF \E k \in DOMAIN text : text[k] = "\n"
         THEN LET k == CHOOSE i \in DOMAIN text :
                           text[i] = "\n" /\ \A j \in 1..(i - 1) : text[j] # "\n"
              IN  <<SubSeq(text, 1, k - 1)>> \o SplitLines(SubSeq(text, k + 1, Len(text)))
         ELSE <<text>>

\* '\n'.join(lines)
RECURSIVE JoinLines(_)
JoinLines(lines) ==
    IF lines = <<>> THEN <<>>
    ELSE IF Len(lines) = 1 THEN lines[1]
    ELSE lines[1] \o <<"\n">> \o JoinLines(Tail(lines))

\* ItemDialog._remove_stillgelegt_note: the text of the notes field after it
RemoveStillgelegtNote(text) ==
    IF text = <<>> THEN text
    ELSE RStrip(JoinLines(SelectSeq(SplitLines(text),
                                    LAMBDA line : PyLower(Strip(line)) # marker_lower)))

\* _text_value of ItemDialog._collect_data
TextValue(value) == IF Strip(value) = <<>> THEN NoneVal ELSE Strip(value)

\* ItemDialog.get_item() of the dialog that was opened on item (_populate),
\* had its Stilllegen button switched off (_handle_deactivate_toggled) and
\* was saved; item carries dates the date fields can show
ReactivatedItem(item) ==
    LET owner == OrEmpty(item.aktueller_besitzer)
    IN  [id |-> item.id,
         objekttyp |-> TextValue(OrEmpty(item.objekttyp)),
         hersteller |-> TextValue(OrEmpty(item.hersteller)),
         modell |-> TextValue(OrEmpty(item.modell)),
         seriennummer |-> TextValue(OrEmpty(item.seriennummer)),
         einkaufsdatum |-> TextValue(OrEmpty(item.einkaufsdatum)),
         zuweisungsdatum |->
             IF Strip(owner) = <<>> \/ PyLower(Strip(owner)) = PyLower(DEFAULT_OWNER)
             THEN NoneVal
             ELSE TextValue(OrEmpty(item.zuweisungsdatum)),
         aktueller_besitzer |-> TextValue(owner),
         anmerkungen |-> TextValue(RemoveStillgelegtNote(OrEmpty(item.anmerkungen))),
         stillgelegt |-> FALSE]

----------------------------------------------------------------------------
(* The calls the model makes *)

Mk(id, typ, her, mod, ser, ek, zu, bes, anm, still) ==
    [id |-> id, objekttyp |-> typ, hersteller |-> her, modell |-> mod,
     seriennummer |-> ser, einkaufsdatum |-> ek, zuweisungsdatum |-> zu,
     aktueller_besitzer |-> bes, anmerkungen |-> anm, stillgelegt |-> still]

S_PC == <<"P","C">>
S_pc == <<"p","c">>
S_Fax == <<"F","a","x">>
S_Acme == <<"A","c","m","e">>
S_AcmePad == <<" ","A","c","m","e"," ">>
S_X1 == <<"X","1">>
S_x1 == <<"x","1">>
S_SN1 == <<"S","N","1">>
S_Date == <<"2","0","2","0">>
S_alt == <<"a","l","t">>
S_MarkerUpper == <<"S","T","I","L","L","G","E","L","E","G","T">>
S_MarkerInside == S_MarkerUpper \o <<" ">> \o S_Date

I_Plain ==
    Mk(NoId, S_PC, S_Acme, NoneVal, S_SN1, NoneVal, NoneVal, NoneVal, NoneVal, FALSE)
I_Padded ==
    Mk(1, S_pc, S_AcmePad, S_x1, <<>>, S_Date, NoneVal, DEFAULT_OWNER, S_alt, TRUE)
I_Marked ==
    Mk(NoId, S_Fax, NoneVal, S_X1, NoneVal, NoneVal, S_Date, S_Acme, S_MarkerInside, FALSE)

\* the records handed to create and update
InputItems == {I_Plain, I_Padded, I_Marked}

\* the ids handed to update, delete and deactivate: every id a store can hold
\* and one that neither store ever holds
IdArgs == 1..(MaxSeq + 1)

CustomCategory == "owner"
CustomValue == <<" ","B","o","b">>

NoCall ==
    [op |-> "init", id |-> NoId, arg |-> <<>>, filters |-> NoFilters,
     jfound |-> FALSE, sfound |-> FALSE,
     jerr |-> NoError, serr |-> NoError, jret |-> <<>>, sret |-> <<>>,
     jcnt |-> 0, scnt |-> 0,
     repo |-> "", fallback |-> FALSE, raised |-> NoError, old_layout |-> FALSE,
     saves |-> FALSE, stop |-> 0, jbefore |-> <<>>, sbefore |-> <<>>,
     after |-> <<>>]

Init ==
    /\ items = <<>>
    /\ jcustom = <<>>
    /\ jfile = JsonSave(<<>>, <<>>)
    /\ jtmp = NoFile
    /\ rows = <<>>
    /\ seq = 0
    /\ scustom = {}
    /\ columns = ExpectedColumns
    /\ migrated = NoTable
    /\ connection = TRUE
    /\ initialized = TRUE
    /\ last = NoCall

\* conn = self._ensure_conn() at the head of a method of SQLiteRepository: s
\* is the outcome of the rest of the method
EnsureConn(s) ==
    IF connection THEN s ELSE Outcome(Db(rows, seq), <<>>, 0, NotInitialized)

\* the same call made on both backends: j and s are its outcomes, saved tells
\* whether JSONRepository reached _save
Both(call, j, s, saved) ==
    /\ items' = j.store
    /\ jfile' = IF saved THEN JsonSave(j.store, jcustom) ELSE jfile
    /\ jtmp' = IF saved THEN NoFile ELSE jtmp
    /\ rows' = s.store.rows
    /\ seq' = s.store.seq
    /\ last' = [call EXCEPT !.jerr = j.err, !.serr = s.err,
                            !.jret = j.ret, !.sret = s.ret,
                            !.jcnt = j.cnt, !.scnt = s.cnt,
                            !.jfound = call.id \in JsonIds(items),
                            !.sfound = call.id \in SqlIds(rows)]
    /\ UNCHANGED <<jcustom, scustom, columns, migrated, connection, initialized>>

CreateOf(Inputs) ==
    /\ seq < MaxSeq /\ Len(items) < MaxSeq
    /\ \E item \in Inputs :
           Both([NoCall EXCEPT !.op = "create", !.arg = <<item>>],
                JsonCreate(items, item), EnsureConn(SqlCreate(rows, seq, item)), TRUE)

UpdateOf(Inputs) ==
    \E id \in IdArgs, item \in Inputs :
        Both([NoCall EXCEPT !.op = "update", !.id = id, !.arg = <<item>>],
             JsonUpdate(items, id, item), EnsureConn(SqlUpdate(rows, seq, id, item)),
             JsonUpdate(items, id, item).err = NoError)

Delete ==
    \E id \in IdArgs :
        Both([NoCall EXCEPT !.op = "delete", !.id = id],
             JsonDelete(items, id), EnsureConn(SqlDelete(rows, seq, id)), TRUE)

Deactivate ==
    \E id \in IdArgs :
        Both([NoCall EXCEPT !.op = "deactivate", !.id = id,
                            !.jbefore = SelectSeq(items, LAMBDA it : it.id = id),
                            !.sbefore = SelectSeq(rows, LAMBDA r : r.id = id)],
             JsonDeactivate(items, id), EnsureConn(SqlDeactivate(rows, seq, id)),
             JsonDeactivate(items, id).err = NoError)

\* MainWindow.edit_selected_item on a record both lists show: the dialog is
\* opened on the record, Stilllegen is switched off, and the record the
\* dialog gives is handed to update
Reactivate ==
    \E id \in JsonIds(items) \cap SqlIds(rows) :
        Both([NoCall EXCEPT !.op = "reactivate", !.id = id],
             JsonUpdate(items, id, ReactivatedItem(JsonGet(items, id)[1])),
             EnsureConn(SqlUpdate(rows, seq, id, ReactivatedItem(SqlGet(rows, id)[1]))),
             TRUE)

ClearOf(Args) ==
    \E arg \in Args :
        LET j == IF arg[1] = "aktueller_besitzer" THEN JsonClearOwner(items, arg[2])
                 ELSE JsonClear(items, arg[1], arg[2])
            s == IF arg[1] = "aktueller_besitzer"
                 THEN (IF IsDefaultOwner(arg[2])   \* returns ahead of _ensure_conn
                       THEN SqlClearOwner(rows, seq, arg[2])
                       ELSE EnsureConn(SqlClearOwner(rows, seq, arg[2])))
                 ELSE EnsureConn(SqlClear(rows, seq, arg[1], arg[2]))
        IN  Both([NoCall EXCEPT !.op = "clear", !.arg = arg], j, s, j.cnt > 0)

DistinctOf(Fields) ==
    \E field \in Fields :
        \E sret \in (IF connection THEN SqlDistinct(rows, field) ELSE {<<>>}) :
            Both([NoCall EXCEPT !.op = "distinct", !.arg = <<field>>],
                 Outcome(items, JsonDistinct(items, field), 0, NoError),
                 EnsureConn(Outcome(Db(rows, seq), sret, 0, NoError)), FALSE)

ListOf(Filters) ==
    \E filters \in Filters :
        Both([NoCall EXCEPT !.op = "list", !.filters = filters],
             JsonList(items, filters), EnsureConn(SqlList(rows, seq, filters)),
             JsonList(items, filters).store # items)

AddCustomValueOf(Args) ==
    \E arg \in Args :
        /\ jcustom' = JsonAddCustomValue(jcustom, arg[1], arg[2])
        /\ scustom' = IF connection THEN SqlAddCustomValue(scustom, arg[1], arg[2])
                      ELSE scustom
        /\ jfile' = JsonSave(items, jcustom')
        /\ jtmp' = NoFile
        /\ last' = [NoCall EXCEPT !.op = "add_custom_value", !.arg = arg,
                                  !.serr = EnsureConn(Outcome(Db(rows, seq), <<>>, 0, NoError)).err]
        /\ UNCHANGED <<items, rows, seq, columns, migrated, connection, initialized>>

AddCustomValue == AddCustomValueOf({<<CustomCategory, CustomValue>>})

RemoveCustomValueOf(Args) ==
    \E arg \in Args :
        /\ jcustom' = JsonRemoveCustomValue(jcustom, arg[1], arg[2])
        /\ scustom' = IF connection THEN SqlRemoveCustomValue(scustom, arg[1], arg[2])
                      ELSE scustom
        /\ jfile' = JsonSave(items, jcustom')
        /\ jtmp' = NoFile
        /\ last' = [NoCall EXCEPT !.op = "remove_custom_value", !.arg = arg,
                                  !.serr = EnsureConn(Outcome(Db(rows, seq), <<>>, 0, NoError)).err]
        /\ UNCHANGED <<items, rows, seq, columns, migrated, connection, initialized>>

RemoveCustomValue == RemoveCustomValueOf({<<CustomCategory, CustomValue>>})

\* RepositoryFactory.create: a new SQLiteRepository is initialized, and when
\* that raises a new JSONRepository; the caller holds the backend returned
FactoryCreate ==
    \E stop \in Stops(Database(columns, rows, migrated, seq)), io_fails \in BOOLEAN :
        LET s == SqlInitialize(Database(columns, rows, migrated, seq), stop)
            j == JsonInitialize(jfile, io_fails)
            r == FactoryResult(s.err, j.err)
        IN  /\ columns' = s.db.columns
            /\ rows' = s.db.rows
            /\ migrated' = s.db.migrated
            /\ seq' = s.db.seq
            /\ connection' = (r.repo = "sqlite")
            /\ initialized' = (r.repo = "json")
            /\ items' = IF s.err = NoError THEN <<>> ELSE j.items
            /\ jcustom' = IF s.err = NoError THEN <<>> ELSE j.custom
            /\ jfile' = IF s.err = NoError THEN jfile ELSE j.file
            /\ jtmp' = IF s.err # NoError /\ j.file # jfile THEN NoFile ELSE jtmp
            /\ last' = [NoCall EXCEPT !.op = "factory", !.id = stop,
                                      !.serr = s.err,
                                      !.jerr = IF s.err = NoError THEN NoError ELSE j.err,
                                      !.repo = r.repo, !.fallback = r.fallback,
                                      !.raised = r.raised,
                                      !.old_layout =
                                          NeedsMigration(Database(columns, rows, migrated, seq))]
            /\ UNCHANGED scustom

\* A call made on the JSONRepository alone.  j is the outcome of the method
\* and custom the custom_values it leaves; when saves holds the method has
\* replaced self.items and self.custom_values and then calls _save, which
\* stops at any of its points; the method returns j.ret once _save returned.
\* A create keeps the call made before it (after: its op, its id and whether
\* the store held that id).
\* The model bounds the failures: a write fails only while the file agrees
\* with the memory, so that at most one failed write is outstanding.
JsonCall(call, j, custom, saves) ==
    \E stop \in (IF ~saves THEN {0}
                 ELSE IF jfile = JsonSave(items, jcustom) THEN SaveStops
                 ELSE {Len(SaveSteps)}) :
        LET w == IF saves THEN Save(jfile, jtmp, JsonSave(j.store, custom), stop)
                 ELSE Written(jfile, jtmp, j.err)
        IN  /\ items' = j.store
            /\ jcustom' = custom
            /\ jfile' = w.file
            /\ jtmp' = w.tmp
            /\ last' = [call EXCEPT !.jerr = w.err,
                                    !.jret = IF w.err = NoError THEN j.ret ELSE <<>>,
                                    !.jcnt = IF w.err = NoError THEN j.cnt ELSE 0,
                                    !.jfound = call.id \in JsonIds(items),
                                    !.saves = saves, !.stop = stop,
                                    !.after = IF call.op = "create"
                                              THEN <<last.op, last.id, last.jfound>>
                                              ELSE <<>>]
            /\ UNCHANGED <<rows, seq, scustom, columns, migrated, connection,
                           initialized>>

CreateOnJson(Inputs) ==
    /\ JsonNextId(items) <= MaxSeq
    /\ \E item \in Inputs :
           JsonCall([NoCall EXCEPT !.op = "create", !.arg = <<item>>],
                    JsonCreate(items, item), jcustom, TRUE)

UpdateOnJson(Inputs) ==
    \E id \in IdArgs, item \in Inputs :
        JsonCall([NoCall EXCEPT !.op = "update", !.id = id, !.arg = <<item>>],
                 JsonUpdate(items, id, item), jcustom,
                 JsonUpdate(items, id, item).err = NoError)

DeleteOnJson ==
    \E id \in IdArgs :
        JsonCall([NoCall EXCEPT !.op = "delete", !.id = id],
                 JsonDelete(items, id), jcustom, TRUE)

DeactivateOnJson ==
    \E id \in IdArgs :
        JsonCall([NoCall EXCEPT !.op = "deactivate", !.id = id],
                 JsonDeactivate(items, id), jcustom,
                 JsonDeactivate(items, id).err = NoError)

ClearOnJson(Args) ==
    \E arg \in Args :
        LET j == IF arg[1] = "aktueller_besitzer" THEN JsonClearOwner(items, arg[2])
                 ELSE JsonClear(items, arg[1], arg[2])
        IN  JsonCall([NoCall EXCEPT !.op = "clear", !.arg = arg], j, jcustom, j.cnt > 0)

ListOnJson ==
    JsonCall([NoCall EXCEPT !.op = "list"],
             JsonList(items, NoFilters), jcustom, JsonList(items, NoFilters).store # items)

AddCustomValueOnJson(Args) ==
    \E arg \in Args :
        JsonCall([NoCall EXCEPT !.op = "add_custom_value", !.arg = arg],
                 Outcome(items, <<>>, 0, NoError),
                 JsonAddCustomValue(jcustom, arg[1], arg[2]), TRUE)

RemoveCustomValueOnJson(Args) ==
    \E arg \in Args :
        JsonCall([NoCall EXCEPT !.op = "remove_custom_value", !.arg = arg],
                 Outcome(items, <<>>, 0, NoError),
                 JsonRemoveCustomValue(jcustom, arg[1], arg[2]), TRUE)

\* the record calls of both backends, from the empty stores
Next ==
    \/ CreateOf(InputItems)
    \/ UpdateOf(InputItems)
    \/ Delete
    \/ Deactivate
    \/ ListOf({NoFilters})

Spec == Init /\ [][Next]_vars

\* the record calls and the clear_* calls
ClearItems == {I_Padded, I_Marked}
ClearArgs == { <<"hersteller", S_Acme>>, <<"aktueller_besitzer", S_Acme>> }

NextClear ==
    \/ CreateOf(ClearItems)
    \/ UpdateOf(ClearItems)
    \/ Delete
    \/ Deactivate
    \/ ClearOf(ClearArgs)
    \/ ListOf({NoFilters})

SpecClear == Init /\ [][NextClear]_vars

\* the record calls next to the custom-value calls
CustomItems == {I_Plain, I_Padded}

NextCustom ==
    \/ CreateOf(CustomItems)
    \/ Delete
    \/ AddCustomValue
    \/ RemoveCustomValue

SpecCustom == Init /\ [][NextCustom]_vars

\* the filter mappings handed to list
FilterArgs ==
    { NoFilters,
      << {} >>,
      << {<<"objekttyp", S_pc>>} >>,
      << {<<"modell", <<"x">>>>, <<"hersteller", <<>>>>} >>,
      << {<<"seriennummer", NoneVal>>, <<"objekttyp", <<"a">>>>} >>,
      << {<<"anmerkungen", <<"o","n">>>>} >>,
      << {<<"hersteller", <<"a","_","m">>>>} >>,
      << {<<GLOBAL, S_pc>>} >>,
      << {<<GLOBAL, <<"n","o","n","e">>>>} >>,
      << {<<GLOBAL, S_Acme>>, <<"objekttyp", S_pc>>} >> }

S_UmlautUpper == <<"Ä","b">>
S_UmlautLower == <<"ä","a">>

O_Upper ==
    Mk(NoId, S_UmlautUpper, NoneVal, S_X1, NoneVal, NoneVal, NoneVal, NoneVal, NoneVal, FALSE)
O_Lower ==
    Mk(NoId, S_UmlautLower, NoneVal, NoneVal, NoneVal, NoneVal, NoneVal, NoneVal, NoneVal, FALSE)

\* the records and filters of the calls whose order list is asked for
OrderItems == {I_Plain, I_Padded, O_Upper, O_Lower}
OrderFilters == { NoFilters, << {<<"modell", <<"x">>>>} >> }

NextOrder ==
    \/ CreateOf(OrderItems)
    \/ UpdateOf(OrderItems)
    \/ Delete
    \/ ListOf(OrderFilters)

SpecOrder == Init /\ [][NextOrder]_vars

\* rows written by an earlier version of the application, which deactivated
\* records without noting it in anmerkungen
R_OldNoted ==
    Mk(NoId, S_PC, S_Acme, S_X1, NoneVal, NoneVal, NoneVal, NoneVal, S_alt, 1)
R_OldBare ==
    Mk(NoId, S_Fax, NoneVal, NoneVal, S_SN1, NoneVal, NoneVal, NoneVal, NoneVal, 1)
R_Active ==
    Mk(NoId, S_pc, S_Acme, NoneVal, NoneVal, NoneVal, NoneVal, DEFAULT_OWNER, NoneVal, 0)

LegacyRows == {R_OldNoted, R_OldBare, R_Active}

\* the stores an earlier version left behind: one or two rows, ids from 1
LegacyTables ==
    {<<CopyId(r, 1)>> : r \in LegacyRows}
        \cup {<<CopyId(r, 1), CopyId(q, 2)>> : r \in LegacyRows, q \in LegacyRows}

\* both backends after initialize() on such a store: JSONRepository._load
\* reads each entry with Item.from_row, SQLiteRepository finds the rows
InitLegacy ==
    \E table \in LegacyTables :
        /\ items = [i \in DOMAIN table |-> from_row(table[i])]
        /\ jcustom = <<>>
        /\ jfile = JsonSave([i \in DOMAIN table |-> from_row(table[i])], <<>>)
        /\ jtmp = NoFile
        /\ rows = table
        /\ seq = Len(table)
        /\ scustom = {}
        /\ columns = ExpectedColumns
        /\ migrated = NoTable
        /\ connection = TRUE
        /\ initialized = TRUE
        /\ last = NoCall

LegacyFilters ==
    { NoFilters, << {<<"objekttyp", S_pc>>} >>, << {<<GLOBAL, S_alt>>} >> }

NextLegacy ==
    \/ ListOf(LegacyFilters)
    \/ UpdateOf({I_Plain})
    \/ Delete

SpecLegacy == InitLegacy /\ [][NextLegacy]_vars

S_fax == <<"f","a","x">>

V_Lower ==
    Mk(NoId, S_fax, S_Acme, S_X1, NoneVal, NoneVal, NoneVal, NoneVal, NoneVal, FALSE)

\* the records, fields and values of the distinct_* and clear_* calls
ValueItems == {I_Plain, I_Padded, V_Lower}
ValueFields == {"objekttyp", "hersteller"}
ValueClearArgs ==
    { <<"hersteller", S_Acme>>, <<"hersteller", S_AcmePad>>, <<"objekttyp", S_pc>>,
      <<"modell", <<"X">>>> }

NextValues ==
    \/ CreateOf(ValueItems)
    \/ ClearOf(ValueClearArgs)
    \/ DistinctOf(ValueFields)

SpecValues == Init /\ [][NextValues]_vars

S_Bob == <<"B","o","b">>
S_bob == <<"b","o","b">>
S_UpperAe == <<"Ä">>
S_LowerAe == <<"ä">>

\* the categories and values of the custom-value calls
CustomCategories == {"owner", "model"}
CustomArgs ==
    { <<"owner", S_Bob>>, <<"owner", S_bob>>, <<"owner", CustomValue>>,
      <<"owner", S_UpperAe>>, <<"owner", S_LowerAe>>, <<"model", S_Bob>> }

NextCustomValues ==
    \/ AddCustomValueOf(CustomArgs)
    \/ RemoveCustomValueOf(CustomArgs)
    \/ CreateOf({I_Plain})

SpecCustomValues == Init /\ [][NextCustomValues]_vars

\* the items table under the column layouts of earlier versions: without
\* stillgelegt, and without zuweisungsdatum and stillgelegt
ColumnsV2 == SelectSeq(ExpectedColumns, LAMBDA c : c # "stillgelegt")
ColumnsV1 == SelectSeq(ColumnsV2, LAMBDA c : c # "zuweisungsdatum")

OldLayouts == {ColumnsV1, ColumnsV2, ExpectedColumns}

B_First ==
    Mk(1, S_PC, S_Acme, S_X1, NoneVal, S_Date, S_Date, S_Acme, S_alt, 0)
B_Second ==
    Mk(2, S_Fax, NoneVal, NoneVal, S_SN1, NoneVal, NoneVal, NoneVal, NoneVal, 1)

\* a row under a layout: its values for the columns the layout has
RowUnder(row, cols) == [c \in Range(cols) |-> row[c]]

\* the database files the application can find: none (sqlite3.connect makes
\* an empty one), or one of an earlier or of this version
DiskDatabases ==
    {Database(<<>>, <<>>, NoTable, 0)}
        \cup {Database(cols, <<RowUnder(B_First, cols)>>, NoTable, 1) : cols \in OldLayouts}
        \cup {Database(cols, <<RowUnder(B_First, cols), RowUnder(B_Second, cols)>>,
                       NoTable, 2) : cols \in OldLayouts}

\* the fallback files the application can find
DiskFiles ==
    { NoFile, CorruptFile, FileList(<<to_dict(from_row(B_First))>>),
      JsonSave(<<from_row(B_Second)>>, [owner |-> <<S_bob, S_Bob>>]) }

\* two repositories as their constructors leave them, over the files found
InitClosedOver(Databases, Files) ==
    \E db \in Databases, file \in Files :
        /\ items = <<>>
        /\ jcustom = <<>>
        /\ jfile = file
        /\ jtmp = NoFile
        /\ rows = db.rows
        /\ seq = db.seq
        /\ scustom = {}
        /\ columns = db.columns
        /\ migrated = db.migrated
        /\ connection = FALSE
        /\ initialized = FALSE
        /\ last = NoCall

OpenClearArgs == { <<"aktueller_besitzer", DEFAULT_OWNER>>, <<"hersteller", S_Acme>> }

NextOpen ==
    \/ FactoryCreate
    \/ CreateOf({I_Plain})
    \/ Delete
    \/ ListOf({NoFilters})
    \/ ClearOf(OpenClearArgs)
    \/ AddCustomValueOf({<<"owner", S_Bob>>})

\* the calls before and after the factory has opened a backend, over a new
\* installation and over one of this version
InitClosed ==
    InitClosedOver({db \in DiskDatabases : db.columns \in {<<>>, ExpectedColumns} /\ db.seq < 2},
                   DiskFiles \ {FileList(<<to_dict(from_row(B_First))>>)})

SpecOpen == InitClosed /\ [][NextOpen]_vars

\* the factory over the databases of every version
InitMigrate == InitClosedOver(DiskDatabases, {NoFile, FileList(<<to_dict(from_row(B_First))>>)})

NextMigrate ==
    \/ FactoryCreate
    \/ CreateOf({I_Plain})
    \/ Delete
    \/ AddCustomValueOf({<<"owner", S_Bob>>})

SpecMigrate == InitMigrate /\ [][NextMigrate]_vars

\* the calls of the JSONRepository with a _save that can fail
SaveItems == {I_Plain, I_Padded}
SaveClearArgs == { <<"hersteller", S_Acme>> }
SaveCustomArgs == { <<"owner", S_Bob>> }

NextSave ==
    \/ CreateOnJson(SaveItems)
    \/ UpdateOnJson({I_Padded})
    \/ DeleteOnJson
    \/ DeactivateOnJson
    \/ ClearOnJson(SaveClearArgs)
    \/ ListOnJson
    \/ AddCustomValueOnJson(SaveCustomArgs)
    \/ RemoveCustomValueOnJson(SaveCustomArgs)

\* the JSONRepository after initialize() on a missing file, or on the file an
\* earlier version left with a record that is stillgelegt without its note
SaveTables == { <<>>, <<CopyId(R_OldBare, 1)>> }

InitSave ==
    \E table \in SaveTables :
        /\ items = [i \in DOMAIN table |-> from_row(table[i])]
        /\ jcustom = <<>>
        /\ jfile = JsonSave([i \in DOMAIN table |-> from_row(table[i])], <<>>)
        /\ jtmp = NoFile
        /\ rows = <<>>
        /\ seq = 0
        /\ scustom = {}
        /\ columns = ExpectedColumns
        /\ migrated = NoTable
        /\ connection = FALSE
        /\ initialized = TRUE
        /\ last = NoCall

SpecSave == InitSave /\ [][NextSave]_vars

\* Item.with_stillgelegt_note applied to a record, and again to its result:
\* the record is the one element of items
ApplyNote ==
    /\ items' = <<with_stillgelegt_note(items[1])>>
    /\ last' = [NoCall EXCEPT !.op = "with_stillgelegt_note", !.arg = <<items[1]>>,
                              !.jret = <<with_stillgelegt_note(items[1])>>]
    /\ UNCHANGED <<rows, seq, jcustom, jfile, jtmp, scustom, columns, migrated,
                   connection, initialized>>

\* the notes a record can carry: nothing, blanks, a text, with the marker in
\* any letter case at its end or inside
NotePrefixes == { <<>>, <<" ">>, <<"\n">>, S_alt, S_alt \o <<"\n">>, <<" ">> \o S_alt }
NoteMarkers == { <<>>, MARKER, S_MarkerUpper, marker_lower }
NoteSuffixes == { <<>>, <<"\n">>, <<" ">> \o S_Date }
Notes ==
    {NoneVal} \cup {p \o m \o x : p \in NotePrefixes, m \in NoteMarkers, x \in NoteSuffixes}

NoteRecords ==
    { [I_Plain EXCEPT !.anmerkungen = n, !.stillgelegt = b] : n \in Notes, b \in BOOLEAN }

InitNote ==
    \E r \in NoteRecords :
        /\ items = <<r>>
        /\ jcustom = <<>>
        /\ jfile = NoFile
        /\ jtmp = NoFile
        /\ rows = <<>>
        /\ seq = 0
        /\ scustom = {}
        /\ columns = ExpectedColumns
        /\ migrated = NoTable
        /\ connection = FALSE
        /\ initialized = FALSE
        /\ last = NoCall

SpecNote == InitNote /\ [][ApplyNote]_vars

\* records are created, stillgelegt by deactivate and taken back in the dialog
S_OwnMarkerLine == S_alt \o <<"\n">> \o marker_lower

T_Noted ==
    Mk(NoId, S_PC, S_Acme, S_X1, S_SN1, S_Date, NoneVal, NoneVal, S_alt, FALSE)
T_OwnLine ==
    Mk(NoId, S_Fax, NoneVal, NoneVal, NoneVal, S_Date, NoneVal, NoneVal, S_OwnMarkerLine, FALSE)
T_Inside ==
    Mk(NoId, S_Fax, S_Acme, NoneVal, NoneVal, S_Date, S_Date, S_Acme, S_MarkerInside, FALSE)

ToggleItems == {I_Plain, T_Noted, T_OwnLine, T_Inside}

NextToggle ==
    \/ CreateOf(ToggleItems)
    \/ Deactivate
    \/ Reactivate
    \/ Delete

SpecToggle == Init /\ [][NextToggle]_vars

\* create, delete and the filtered list
NextList ==
    \/ CreateOf(InputItems)
    \/ Delete
    \/ ListOf(FilterArgs)

SpecList == Init /\ [][NextList]_vars

----------------------------------------------------------------------------
(* What the calls are required to do *)

\* the record a store holds under an id, as a sequence of at most one record
JsonStored(its, id) == SelectSeq(its, LAMBDA it : it.id = id)
SqlStored(rs, id) == SelectSeq(rs, LAMBDA r : r.id = id)

\* C1: update(id, record) and deactivate(id) with an id no stored record has
\* fail with RepositoryError in both backends and leave the stored records
\* unchanged (update(999, record) on an empty store included).
C1_NotFoundRaised ==
    [][last'.op \in {"update", "deactivate"} =>
          /\ ~last'.jfound => (last'.jerr = NotFound /\ items' = items)
          /\ ~last'.sfound => (last'.serr = NotFound /\ rows' = rows)]_vars

\* C2: the two backends, given the same calls from the empty store, answer
\* each call alike (same records returned, same error) and return equal
\* records from list(None) afterwards.
C2_BackendParity ==
    /\ last.jerr = last.serr
    /\ last.jret = last.sret
    /\ JsonList(items, NoFilters).ret = SqlList(rows, seq, NoFilters).ret

IdSeq(store) == [i \in DOMAIN store |-> store[i].id]

UniqueIds(store) ==
    \A i, j \in DOMAIN store : i # j => store[i].id # store[j].id

\* how the ids of a store may change in one call: create appends the id it
\* returns, delete takes out its id, every other call leaves each record
\* under the id it had
IdsKept(before, after, call, ret) ==
    IF call.op = "create" THEN IdSeq(after) = Append(IdSeq(before), ret[1].id)
    ELSE IF call.op = "delete"
         THEN IdSeq(after) = SelectSeq(IdSeq(before), LAMBDA id : id # call.id)
    ELSE IdSeq(after) = IdSeq(before)

\* C3: in each backend no two stored records have the same id, and a record
\* keeps the id its create returned until it is deleted, whatever id the
\* record handed to update carries.
C3_IdsUniqueAndStable ==
    [][/\ UniqueIds(items') /\ UniqueIds(rows')
       /\ IdsKept(items, items', last', last'.jret)
       /\ IdsKept(rows, rows', last', last'.sret)]_vars

\* an update of a stored record with a record that carries another id, with a
\* second record in the store
C3_Witness ==
    /\ last.op = "update" /\ last.jfound /\ last.sfound
    /\ last.arg[1].id \notin {NoId, last.id}
    /\ Len(items) = 2 /\ Len(rows) = 2

HasMarker(note) == Contains(PyLower(OrEmpty(note)), marker_lower)

\* C4: every stored record that is stillgelegt has anmerkungen containing
\* 'Stillgelegt', compared case-insensitively, in both backends.
C4_DeactivatedHasMarker ==
    /\ \A i \in DOMAIN items : items[i].stillgelegt => HasMarker(items[i].anmerkungen)
    /\ \A i \in DOMAIN rows : rows[i].stillgelegt # 0 => HasMarker(rows[i].anmerkungen)

\* a stored record made stillgelegt by create and one whose notes carry the
\* marker in another letter case only, after a clear_* call
C4_Witness ==
    /\ last.op = "clear" /\ last.jcnt > 0 /\ last.scnt > 0
    /\ \E i \in DOMAIN items : \E k \in DOMAIN rows :
          /\ items[i].stillgelegt /\ rows[k].stillgelegt # 0
          /\ ~Contains(OrEmpty(items[i].anmerkungen), MARKER)
          /\ ~Contains(OrEmpty(rows[k].anmerkungen), MARKER)
    /\ \E i \in DOMAIN items : EndsWith(OrEmpty(items[i].anmerkungen), MARKER)

\* the notes end with the marker on a line of its own
MarkerLine(note) ==
    /\ EndsWith(note, MARKER)
    /\ Len(note) = Len(MARKER) \/ note[Len(note) - Len(MARKER)] = "\n"

\* the previous call was the same deactivate, on a record the store held
SecondDeactivate(found) ==
    last.op = "deactivate" /\ last.id = last'.id /\ found

\* C5 as claimed: deactivate(id) on a stored record persists stillgelegt with
\* notes ending in the marker line and returns that record; a second
\* deactivate(id) leaves the stored record as the first one left it.
C5_DeactivateEndsInMarkerLine ==
    [][last'.op = "deactivate" =>
          /\ last'.jfound =>
                LET st == JsonStored(items', last'.id)
                IN  /\ Len(st) = 1 /\ st[1].stillgelegt
                    /\ MarkerLine(OrEmpty(st[1].anmerkungen))
                    /\ last'.jret = st
                    /\ SecondDeactivate(last.jfound) => items' = items
          /\ last'.sfound =>
                LET st == SqlStored(rows', last'.id)
                IN  /\ Len(st) = 1 /\ st[1].stillgelegt = 1
                    /\ MarkerLine(OrEmpty(st[1].anmerkungen))
                    /\ last'.sret = SqlGet(rows', last'.id)
                    /\ SecondDeactivate(last.sfound) => rows' = rows]_vars

\* C5 as the code has it: deactivate(id) on a stored record persists
\* stillgelegt with notes that contain the marker, ending in the marker line
\* when the notes did not contain the marker before, and returns that record;
\* a second deactivate(id) leaves the stored record as the first one left it.
C5_DeactivateAddsMarkerOnce ==
    [][last'.op = "deactivate" =>
          /\ last'.jfound =>
                LET st == JsonStored(items', last'.id)
                    old == JsonStored(items, last'.id)
                IN  /\ Len(st) = 1 /\ st[1].stillgelegt
                    /\ HasMarker(st[1].anmerkungen)
                    /\ ~HasMarker(old[1].anmerkungen) =>
                           MarkerLine(OrEmpty(st[1].anmerkungen))
                    /\ last'.jret = st
                    /\ SecondDeactivate(last.jfound) => items' = items
          /\ last'.sfound =>
                LET st == SqlStored(rows', last'.id)
                    old == SqlStored(rows, last'.id)
                IN  /\ Len(st) = 1 /\ st[1].stillgelegt = 1
                    /\ HasMarker(st[1].anmerkungen)
                    /\ ~HasMarker(old[1].anmerkungen) =>
                           MarkerLine(OrEmpty(st[1].anmerkungen))
                    /\ last'.sret = SqlGet(rows', last'.id)
                    /\ SecondDeactivate(last.sfound) => rows' = rows]_vars

\* deactivate has turned the record created without notes and without the
\* flag into a stillgelegt one whose notes are the marker line
C5_Witness ==
    /\ last.op = "deactivate" /\ last.jfound /\ last.sfound
    /\ last.jret[1].seriennummer = S_SN1 /\ last.jret[1].anmerkungen = MARKER
    /\ last.sret[1].seriennummer = S_SN1 /\ last.sret[1].anmerkungen = MARKER

\* C7: create ignores the id of the record it is given: the id it returns is
\* held by no stored record, the stored records stay as they are and one
\* record is added under the returned id; the first create returns id 1, and
\* stillgelegt = FALSE when the record given does not set the flag.
C7_CreateAssignsFreshId ==
    [][last'.op = "create" =>
          /\ last'.jret[1].id \notin JsonIds(items)
          /\ items' = Append(items, items'[Len(items')])
          /\ items'[Len(items')].id = last'.jret[1].id
          /\ last'.sret[1].id \notin SqlIds(rows)
          /\ rows' = Append(rows, rows'[Len(rows')])
          /\ rows'[Len(rows')].id = last'.sret[1].id
          /\ seq = 0 =>
                /\ last'.jret[1].id = 1 /\ last'.sret[1].id = 1
                /\ ~last'.arg[1].stillgelegt =>
                       /\ ~last'.jret[1].stillgelegt /\ ~last'.sret[1].stillgelegt
                       /\ ~items'[1].stillgelegt /\ rows'[1].stillgelegt = 0]_vars

\* create was given a record carrying the id of a stored record, which is
\* still there beside the new one
C7_Witness ==
    /\ last.op = "create" /\ last.arg[1].id = 1
    /\ Len(items) = 2 /\ items[1].id = 1 /\ items[2].id = 2
    /\ Len(rows) = 2 /\ rows[1].id = 1 /\ rows[2].id = 2

\* what a delete of id may do to a store: the records under other ids stay
\* as they are and in their order, the record under id is gone
DeleteFrame(before, after, id, found) ==
    /\ \A i \in DOMAIN after : after[i].id # id
    /\ \A i \in DOMAIN before : before[i].id # id => \E k \in DOMAIN after : after[k] = before[i]
    /\ \A k \in DOMAIN after : \E i \in DOMAIN before : before[i] = after[k]
    /\ Len(after) = Len(before) - (IF found THEN 1 ELSE 0)
    /\ ~found => after = before

\* C6: delete(id) removes exactly the stored record with that id and leaves
\* every other record and all custom values unchanged; when no stored record
\* has that id, delete(id) raises no error and the stored records are
\* unchanged.
C6_DeleteRemovesOnlyThatRecord ==
    [][last'.op = "delete" =>
          /\ last'.jerr = NoError /\ last'.serr = NoError
          /\ DeleteFrame(items, items', last'.id, last'.jfound)
          /\ DeleteFrame(rows, rows', last'.id, last'.sfound)
          /\ jcustom' = jcustom /\ scustom' = scustom
          /\ jfile'.custom_values = jfile.custom_values
          /\ jfile'.items = [i \in DOMAIN items' |-> to_dict(items'[i])]]_vars

\* delete has taken one of two records out of both stores while a custom
\* value is stored
C6_Witness ==
    /\ last.op = "delete" /\ last.jfound /\ last.sfound
    /\ Len(items) = 1 /\ Len(rows) = 1
    /\ jcustom # <<>> /\ scustom # {}

----------------------------------------------------------------------------
(* What list(filters) is required to return *)

\* value is a case-insensitive substring of the field; an absent field
\* contains nothing
FieldWanted(v, value) == ~IsNone(v) /\ Contains(PyLower(v), PyLower(value))

\* every per-field filter with a non-empty value is found in its field
PerFieldWanted(rec, filters) ==
    \A key \in FilterKeys(filters) \ {GLOBAL} :
        Truthy(FilterValue(filters, key)) =>
            FieldWanted(rec[key], FilterValue(filters, key))

\* at least one of the allow-listed fields contains the term
GlobalWanted(rec, t) == \E key \in AllowedKeys : FieldWanted(rec[key], t)

\* ret holds exactly the records of store that Wanted picks, each once
ReturnsExactly(ret, store, Wanted(_)) ==
    /\ {ret[i].id : i \in DOMAIN ret} = {store[i].id : i \in {k \in DOMAIN store : Wanted(store[k])}}
    /\ Len(ret) = Cardinality({k \in DOMAIN store : Wanted(store[k])})

\* C9: list(filters) without a global term returns exactly the stored records
\* for which every per-field filter with a non-empty value is a
\* case-insensitive substring of the named field; empty and absent values are
\* ignored and an absent (None) field matches no non-empty filter.
C9_PerFieldFilters ==
    (last.op = "list" /\ last.filters # NoFilters /\ ~Truthy(GlobalSearch(last.filters))) =>
        /\ ReturnsExactly(last.jret, items, LAMBDA rec : PerFieldWanted(rec, last.filters))
        /\ ReturnsExactly(last.sret, rows, LAMBDA rec : PerFieldWanted(rec, last.filters))

\* C10: list(filters) with a non-empty global term t returns exactly the
\* stored records that pass the per-field filters and have at least one of the
\* eight allow-listed fields containing t as a case-insensitive substring.
C10_GlobalSearch ==
    (last.op = "list" /\ last.filters # NoFilters /\ Truthy(GlobalSearch(last.filters))) =>
        /\ ReturnsExactly(last.jret, items,
                          LAMBDA rec : /\ PerFieldWanted(rec, last.filters)
                                       /\ GlobalWanted(rec, GlobalSearch(last.filters)))
        /\ ReturnsExactly(last.sret, rows,
                          LAMBDA rec : /\ PerFieldWanted(rec, last.filters)
                                       /\ GlobalWanted(rec, GlobalSearch(last.filters)))

IdsOf(ret) == {ret[i].id : i \in DOMAIN ret}

\* C11: filter monotonicity: when every field:value pair of F1 is also in F2,
\* the records list(F2) returns are among those list(F1) returns, in both
\* backends.
C11_FilterMonotone ==
    (last.op = "list" /\ last.filters # NoFilters) =>
        \A F1 \in FilterArgs \ {NoFilters} :
            F1[1] \subseteq last.filters[1] =>
                /\ IdsOf(last.jret) \subseteq IdsOf(JsonList(items, F1).ret)
                /\ IdsOf(last.sret) \subseteq IdsOf(SqlList(rows, seq, F1).ret)

\* list with a per-field filter and a global term has returned a record, and
\* the global term alone returns more records in both backends
C11_Witness ==
    /\ last.op = "list"
    /\ last.filters = << {<<GLOBAL, S_Acme>>, <<"objekttyp", S_pc>>} >>
    /\ last.jret # <<>> /\ last.sret # <<>>
    /\ Len(JsonList(items, << {<<GLOBAL, S_Acme>>} >>).ret) > Len(last.jret)
    /\ Len(SqlList(rows, seq, << {<<GLOBAL, S_Acme>>} >>).ret) > Len(last.sret)

\* the sort key list is required to order by
RequiredSortKey(rec) ==
    <<TextKey(PyLower(OrEmpty(rec.objekttyp))), TextKey(PyLower(OrEmpty(rec.modell)))>>

Ascending(ret) ==
    \A i, j \in DOMAIN ret :
        i < j => ~KeyLess(RequiredSortKey(ret[j]), RequiredSortKey(ret[i]))

TypeAndModel(ret) == [i \in DOMAIN ret |-> <<ret[i].objekttyp, ret[i].modell>>]

\* C12: after any create/update/delete calls, list returns the records
\* ascending by object type and then by model, both compared
\* case-insensitively with an absent value as the empty string, and in the
\* same order in both backends.
C12_ListOrdered ==
    last.op = "list" =>
        /\ Ascending(last.jret)
        /\ Ascending(last.sret)
        /\ Range(TypeAndModel(last.jret)) = Range(TypeAndModel(last.sret)) =>
               TypeAndModel(last.jret) = TypeAndModel(last.sret)

\* C13: when the store holds a deactivated record whose notes lack the
\* marker, list(filters) adds the marker to the record it returns and to the
\* stored record, whatever the filters are, in both backends.
C13_ListRepairsStoredNotes ==
    [][last'.op = "list" =>
          /\ \A i \in DOMAIN last'.jret :
                 last'.jret[i].stillgelegt => HasMarker(last'.jret[i].anmerkungen)
          /\ \A i \in DOMAIN last'.sret :
                 last'.sret[i].stillgelegt => HasMarker(last'.sret[i].anmerkungen)
          /\ \A i \in DOMAIN items :
                 items[i].stillgelegt =>
                     /\ HasMarker(items'[i].anmerkungen)
                     /\ jfile'.items[i] = to_dict(items'[i])
          /\ \A i \in DOMAIN rows :
                 rows[i].stillgelegt # 0 => HasMarker(rows'[i].anmerkungen)]_vars

\* the values are in ascending order under case-insensitive comparison, each
\* value once
AscendingValues(ret) ==
    /\ \A i, j \in DOMAIN ret : i < j => ~StrLess(PyLower(ret[j]), PyLower(ret[i]))
    /\ \A i, j \in DOMAIN ret : i # j => ret[i] # ret[j]

\* C14: each distinct_* query returns the non-empty values of its field over
\* all stored records, each value once, ascending under case-insensitive
\* comparison, in both backends.
C14_DistinctSorted ==
    last.op = "distinct" =>
        /\ Range(last.jret) = {items[i][last.arg[1]] :
                                  i \in {k \in DOMAIN items : Truthy(items[k][last.arg[1]])}}
        /\ Range(last.sret) = {rows[i][last.arg[1]] :
                                  i \in {k \in DOMAIN rows : Truthy(rows[k][last.arg[1]])}}
        /\ AscendingValues(last.jret)
        /\ AscendingValues(last.sret)

\* what clear_<field>(value) may do to the record before: reset the field of
\* a record whose field equals value, leave every other record as it is
ClearedRecord(before, after, field, value) ==
    IF before[field] = value
    THEN ~Truthy(after[field]) /\ after = [before EXCEPT ![field] = after[field]]
    ELSE after = before

\* C15: clear_serial_number/clear_object_type/clear_manufacturer/clear_model
\* (value) resets the field of exactly the stored records whose field equals
\* value, leaves the rest unchanged and returns the number of records it
\* changed; afterwards the distinct_* query of the field does not contain
\* value.
C15_ClearResetsExactMatches ==
    [][(last'.op = "clear" /\ last'.arg[1] # "aktueller_besitzer") =>
          LET field == last'.arg[1]
              value == last'.arg[2]
          IN  /\ Len(items') = Len(items) /\ Len(rows') = Len(rows)
              /\ \A i \in DOMAIN items : ClearedRecord(items[i], items'[i], field, value)
              /\ \A i \in DOMAIN rows : ClearedRecord(rows[i], rows'[i], field, value)
              /\ last'.jcnt = Cardinality({i \in DOMAIN items : items[i][field] = value})
              /\ last'.scnt = Cardinality({i \in DOMAIN rows : rows[i][field] = value})
              /\ value \notin Range(JsonDistinct(items', field))
              /\ value \notin SqlDistinctValues(rows', field)]_vars

\* no two values are equal ignoring case, and the values ascend under
\* case-insensitive comparison
CaseInsensitiveSet(values) ==
    /\ \A i, j \in DOMAIN values : i # j => PyLower(values[i]) # PyLower(values[j])
    /\ \A i, j \in DOMAIN values :
           i < j => ~StrLess(PyLower(values[j]), PyLower(values[i]))

\* the call before this add added the same value to the same category, in
\* this or another letter case
SecondAdd ==
    /\ last.op = "add_custom_value"
    /\ last.arg[1] = last'.arg[1]
    /\ PyLower(Strip(last.arg[2])) = PyLower(Strip(last'.arg[2]))

\* C16: after any add_custom_value and remove_custom_value calls,
\* list_custom_values(category) holds no two values equal ignoring case and is
\* sorted case-insensitively, in both backends; a second add of a value, in
\* any letter case, leaves the list unchanged, and add touches no other
\* category and no record.
C16_CustomValuesCaseInsensitive ==
    [][/\ \A c \in CustomCategories :
              /\ CaseInsensitiveSet(CustomGet(jcustom', c))
              /\ \A values \in SqlListCustomValues(scustom', c) : CaseInsensitiveSet(values)
       /\ last'.op = "add_custom_value" =>
              /\ items' = items /\ rows' = rows
              /\ \A c \in CustomCategories \ {last'.arg[1]} :
                     /\ CustomGet(jcustom', c) = CustomGet(jcustom, c)
                     /\ SqlListCustomValues(scustom', c) = SqlListCustomValues(scustom, c)
              /\ SecondAdd =>
                     /\ CustomGet(jcustom', last'.arg[1]) = CustomGet(jcustom, last'.arg[1])
                     /\ scustom' = scustom]_vars

\* category c holds a value equal to v under the case-insensitive key
Holds(values, v) == \E e \in values : PyLower(e) = PyLower(v)

\* C17: remove_custom_value(c, v) behaves the same in both backends: when c
\* holds no value equal to v ignoring case, the custom values are unchanged;
\* when it holds one, in any letter case, list_custom_values(c) no longer
\* returns it; the values of other categories are unchanged.
C17_RemoveCustomValue ==
    [][last'.op = "remove_custom_value" =>
          LET c == last'.arg[1]
              v == last'.arg[2]
              jbefore == Range(CustomGet(jcustom, c))
              sbefore == {e[2] : e \in {d \in scustom : d[1] = c}}
          IN  /\ \A o \in CustomCategories \ {c} :
                     /\ CustomGet(jcustom', o) = CustomGet(jcustom, o)
                     /\ SqlListCustomValues(scustom', o) = SqlListCustomValues(scustom, o)
              /\ ~Holds(jbefore, v) => CustomGet(jcustom', c) = CustomGet(jcustom, c)
              /\ ~Holds(sbefore, v) => scustom' = scustom
              /\ ~Holds(Range(CustomGet(jcustom', c)), v)
              /\ ~Holds({e[2] : e \in {d \in scustom' : d[1] = c}}, v)]_vars

\* the operations of AbstractRepository
RepositoryOps ==
    {"list", "create", "update", "delete", "deactivate", "distinct", "clear",
     "add_custom_value", "remove_custom_value"}

\* C18: every repository operation invoked on a backend before its
\* initialize() has succeeded fails with the not-initialized RepositoryError
\* and changes neither the in-memory nor the on-disk state.
C18_ClosedBackendRefuses ==
    [][last'.op \in RepositoryOps =>
          /\ ~initialized =>
                 /\ last'.jerr = NotInitialized
                 /\ items' = items /\ jcustom' = jcustom /\ jfile' = jfile
          /\ ~connection =>
                 /\ last'.serr = NotInitialized
                 /\ rows' = rows /\ seq' = seq /\ scustom' = scustom
                 /\ columns' = columns]_vars

\* C19: RepositoryFactory.create() returns (SQLiteRepository, False) when its
\* initialize() succeeds and (JSONRepository, True) when it raises; the flag
\* is True exactly when the backend returned is the JSONRepository, and an
\* error of JSONRepository.initialize() reaches the caller.
C19_FactoryFallsBack ==
    [][last'.op = "factory" =>
          /\ last'.serr = NoError =>
                 /\ last'.repo = "sqlite" /\ ~last'.fallback /\ last'.raised = NoError
                 /\ connection' /\ ~initialized'
                 /\ jfile' = jfile
          /\ (last'.serr # NoError /\ last'.jerr = NoError) =>
                 /\ last'.repo = "json" /\ last'.fallback /\ last'.raised = NoError
                 /\ initialized' /\ ~connection'
          /\ (last'.serr # NoError /\ last'.jerr # NoError) =>
                 /\ last'.repo = "" /\ last'.raised = last'.jerr
                 /\ ~initialized' /\ ~connection'
          /\ last'.fallback <=> last'.repo = "json"]_vars

\* the factory has fallen back to the JSONRepository, which loaded the
\* records of its file, after SQLiteRepository.initialize() raised
C19_Witness ==
    /\ last.op = "factory" /\ last.serr # NoError
    /\ last.repo = "json" /\ last.fallback
    /\ initialized /\ ~connection /\ items # <<>>

\* RepositoryFactory.create has run on an items table of an older layout
MigrationRan ==
    /\ last'.op = "factory"
    /\ NeedsMigration(Database(columns, rows, migrated, seq))

\* the value a column missing from the old layout is to get
MissingDefault(c) == IF c = "stillgelegt" THEN 0 ELSE <<>>

\* the new table has the ten columns, the ids of the old one in their order,
\* and the defaults in the columns the old one lacked
NewTable(old_cols, old_rows, new_cols, new_rows) ==
    /\ new_cols = ExpectedColumns
    /\ Len(new_rows) = Len(old_rows)
    /\ \A i \in DOMAIN old_rows :
           /\ DOMAIN new_rows[i] = Range(ExpectedColumns)
           /\ new_rows[i].id = old_rows[i].id
           /\ \A c \in Range(ExpectedColumns) \ Range(old_cols) :
                  new_rows[i][c] = MissingDefault(c)

\* every value of a column the old table had is the same in the new one
ValuesIdentical(old_cols, old_rows, new_rows) ==
    \A i \in DOMAIN old_rows : \A c \in Range(old_cols) :
        new_rows[i][c] = old_rows[i][c]

\* every value of a column the old table had is kept, but for NULL in a
\* text column, which is '' in the new one; the record read from the row is
\* the same either way
ValuesCoalesced(old_cols, old_rows, new_rows) ==
    \A i \in DOMAIN old_rows : \A c \in Range(old_cols) :
        IF c \in TextFields
        THEN /\ ~IsNone(old_rows[i][c]) => new_rows[i][c] = old_rows[i][c]
             /\ IsNone(old_rows[i][c]) => new_rows[i][c] = <<>>
             /\ Normalize(new_rows[i][c]) = Normalize(old_rows[i][c])
        ELSE new_rows[i][c] = old_rows[i][c]

C21_InitializeReentrant ==
    [][(last'.op = "factory" /\ columns = ExpectedColumns /\ last'.id >= 0) =>
          /\ last'.serr = NoError /\ ~last'.old_layout
          /\ columns' = columns /\ rows' = rows /\ seq' = seq
          /\ migrated' = migrated /\ scustom' = scustom]_vars

\* initialize() has run without an error on a table that an earlier
\* initialize() migrated: its NULL serial number is the empty string
C21_Witness ==
    /\ last.op = "factory" /\ last.serr = NoError /\ ~last.old_layout
    /\ columns = ExpectedColumns /\ Len(rows) = 2
    /\ rows[1].seriennummer = <<>>
    /\ scustom # {}

\* the largest id among the records of the JSONRepository, 0 when it has none
LargestId(its) == MaxOf(JsonIds(its) \cup {0})

\* the call before this create deleted the record with the largest id
DeletedLargest ==
    last.op = "delete" /\ last.jfound /\ last.id > LargestId(items)

\* the id create gives the new record is the largest stored id (0 for an
\* empty store) plus one, above every stored id, and it is the id returned
MaxPlusOne ==
    /\ items'[Len(items')].id = LargestId(items) + 1
    /\ \A i \in DOMAIN items : items[i].id < items'[Len(items')].id
    /\ last'.jerr = NoError => last'.jret[1].id = items'[Len(items')].id

\* C23 as stated: create of the JSONRepository assigns the largest stored id
\* (0 for an empty store) plus one, which is above every stored id; when the
\* call before deleted the record with the largest id, create assigns that
\* same id again.
C23_DeletedLargestIdComesBack ==
    [][last'.op = "create" =>
          /\ MaxPlusOne
          /\ DeletedLargest => items'[Len(items')].id = last.id]_vars

\* C23 as the code has it: the same, but after the delete of the record
\* with the largest id create assigns the largest remaining id plus one,
\* which is the deleted id exactly when that was one above the largest
\* remaining id, and a smaller one otherwise.
C23_JsonIdIsMaxPlusOne ==
    [][last'.op = "create" =>
          /\ MaxPlusOne
          /\ DeletedLargest =>
                 /\ items'[Len(items')].id <= last.id
                 /\ items'[Len(items')].id = last.id
                        <=> last.id = LargestId(items) + 1]_vars

\* create has returned id 2 again right after the delete of the record with
\* id 2, the largest then stored
C23_Witness ==
    /\ last.op = "create" /\ last.jerr = NoError
    /\ last.after = <<"delete", 2, TRUE>>
    /\ last.jret[1].id = 2 /\ Len(items) = 2

\* a note without content: None, the empty string or blanks
Blank(note) == Strip(OrEmpty(note)) = <<>>

\* the old note followed by the marker on a line of its own
WithMarkerLine(note) ==
    note \o (IF EndsWith(note, <<"\n">>) THEN <<>> ELSE <<"\n">>) \o MARKER

\* the result f of with_stillgelegt_note on r, away from the appended note:
\* applying it again gives f; f is r when r is not stillgelegt or carries
\* the marker in any letter case; otherwise f differs from r in the notes only
NoteFrame(r, f) ==
    /\ with_stillgelegt_note(f) = f
    /\ last.op = "with_stillgelegt_note" => f = r
    /\ (~r.stillgelegt \/ HasMarker(r.anmerkungen)) => f = r
    /\ (r.stillgelegt /\ ~HasMarker(r.anmerkungen)) =>
           /\ f = [r EXCEPT !.anmerkungen = f.anmerkungen]
           /\ f.anmerkungen # r.anmerkungen

\* C24 as stated: with_stillgelegt_note is idempotent; it returns r when r is
\* not stillgelegt or its notes contain the marker; otherwise only the notes
\* change, to the old notes followed by the marker on its own new line (the
\* marker alone when there are no old notes).
C24_NoteAppendedToOldNotes ==
    [][last'.op = "with_stillgelegt_note" =>
          LET r == last'.arg[1]
              f == last'.jret[1]
          IN  /\ NoteFrame(r, f)
              /\ (r.stillgelegt /\ ~HasMarker(r.anmerkungen)) =>
                     f.anmerkungen = IF OrEmpty(r.anmerkungen) = <<>> THEN MARKER
                                     ELSE WithMarkerLine(r.anmerkungen)]_vars

\* C24 as the code has it: the same, with notes that are blank (None, empty
\* or whitespace only) replaced by the marker alone.
C24_NoteAppendedOrBlankReplaced ==
    [][last'.op = "with_stillgelegt_note" =>
          LET r == last'.arg[1]
              f == last'.jret[1]
          IN  /\ NoteFrame(r, f)
              /\ (r.stillgelegt /\ ~HasMarker(r.anmerkungen)) =>
                     f.anmerkungen = IF Blank(r.anmerkungen) THEN MARKER
                                     ELSE WithMarkerLine(r.anmerkungen)]_vars

\* with_stillgelegt_note has been applied a second time, to a record that
\* got its marker line from the first application
C24_Witness ==
    /\ last.op = "with_stillgelegt_note"
    /\ last.arg[1].anmerkungen = S_alt \o <<"\n">> \o MARKER
    /\ last.jret = last.arg
    /\ items = last.jret

\* C25: for a stored record with notes n that is not stillgelegt,
\* deactivate(id) followed by the update that takes stillgelegt back leaves
\* the stored notes identical to n, in both backends.
C25_ReactivateRestoresNotes ==
    [][(last'.op = "reactivate" /\ last.op = "deactivate" /\ last.id = last'.id) =>
          /\ (last.jfound /\ ~last.jbefore[1].stillgelegt) =>
                 /\ ~JsonStored(items', last'.id)[1].stillgelegt
                 /\ JsonStored(items', last'.id)[1].anmerkungen
                        = last.jbefore[1].anmerkungen
          /\ (last.sfound /\ last.sbefore[1].stillgelegt = 0) =>
                 /\ SqlStored(rows', last'.id)[1].stillgelegt = 0
                 /\ SqlStored(rows', last'.id)[1].anmerkungen
                        = last.sbefore[1].anmerkungen]_vars

\* a record with the empty string read as None in every text field
EmptyAsNone(rec) ==
    [f \in DOMAIN rec |->
        IF f \in TextFields /\ rec[f] = <<>> THEN NoneVal ELSE rec[f]]

\* the record a new JSONRepository loads from the file under an id
Reloaded(file, id) == JsonStored(JsonLoad(file).items, id)

\* C26: for the record r a backend returns from create or update,
\* Item.from_row(r.to_dict()) is r, the record a new JSONRepository loads
\* from the document is r, and the record read from the SQLite row is r,
\* where None and the empty string count as the same value.
C26_RoundTrip ==
    [][last'.op \in {"create", "update"} =>
          /\ last'.jerr = NoError =>
                 LET r == last'.jret[1]
                 IN  /\ EmptyAsNone(from_entry(to_dict(r))) = EmptyAsNone(r)
                     /\ Len(Reloaded(jfile', r.id)) = 1
                     /\ EmptyAsNone(Reloaded(jfile', r.id)[1]) = EmptyAsNone(r)
          /\ (last'.serr = NoError /\ (last'.op = "update" => last'.sfound)) =>
                 LET r == last'.sret[1]
                 IN  /\ EmptyAsNone(from_entry(to_dict(r))) = EmptyAsNone(r)
                     /\ Len(SqlStored(rows', r.id)) = 1
                     /\ EmptyAsNone(from_row(SqlStored(rows', r.id)[1])) = EmptyAsNone(r)]_vars

\* a text field that is None or a non-empty string without blanks around it
Trimmed(v) == IsNone(v) \/ (v # <<>> /\ Strip(v) = v)
TrimmedRecord(rec) == \A f \in TextFields : Trimmed(rec[f])

\* C27: every record a backend holds or returns (create, update, deactivate,
\* list) has each text field None or a non-empty string without leading or
\* trailing whitespace; the empty string is no field value.
C27_TextFieldsTrimmed ==
    /\ \A i \in DOMAIN items : TrimmedRecord(items[i])
    /\ \A i \in DOMAIN rows : TrimmedRecord(from_row(rows[i]))
    /\ last.op \in {"create", "update", "deactivate", "list"} =>
           /\ \A i \in DOMAIN last.jret : TrimmedRecord(last.jret[i])
           /\ \A i \in DOMAIN last.sret : TrimmedRecord(last.sret[i])

\* the records of a list that carry the id
Listed(ret, id) == SelectSeq(ret, LAMBDA rec : rec.id = id)

\* C30: the record create or update returns equals the record that get of
\* its id and list(None) return right afterwards, in both backends.
C30_ReturnedEqualsStored ==
    [][last'.op \in {"create", "update"} =>
          /\ last'.jerr = NoError =>
                 /\ JsonGet(items', last'.jret[1].id) = last'.jret
                 /\ Listed(JsonList(items', NoFilters).ret, last'.jret[1].id) = last'.jret
          /\ (last'.serr = NoError /\ (last'.op = "update" => last'.sfound)) =>
                 /\ SqlGet(rows', last'.sret[1].id) = last'.sret
                 /\ Listed(SqlList(rows', seq', NoFilters).ret, last'.sret[1].id)
                        = last'.sret]_vars

\* a file that holds a whole document as _save writes it
IsDocument(file) == DOMAIN file = {"items", "custom_values"}

\* C22: every mutating call of JSONRepository writes the whole document to
\* the temporary file and then replaces the target in one step: wherever the
\* write stops, the target holds a complete document, the previous one until
\* the replace and the new one after it, and a failed write raises its error.
C22_AtomicWrite ==
    [][last'.op \in RepositoryOps =>
          /\ IsDocument(jfile) => IsDocument(jfile')
          /\ IF last'.saves /\ last'.stop = Len(SaveSteps)
             THEN jfile' = JsonSave(items', jcustom') /\ last'.jerr = NoError
             ELSE jfile' = jfile
          /\ (last'.saves /\ last'.stop < Len(SaveSteps)) => last'.jerr = OSError]_vars

\* a write has stopped with the document half written: the temporary file is
\* partial and the target still holds the document of the call before
C22_Witness ==
    /\ last.op = "update" /\ last.saves /\ last.stop = 1 /\ last.jerr = OSError
    /\ jtmp = PartialFile
    /\ IsDocument(jfile) /\ Len(jfile.items) = 2
    /\ jfile # JsonSave(items, jcustom)

\* the records list(None) returns and the custom values of a JSONRepository
ListedRecords(its) == JsonList(its, NoFilters).ret

\* C28: after every mutating call of JSONRepository that returns normally,
\* a fresh JSONRepository initialized from the same path returns from
\* list(None) and list_custom_values what the live instance returns.
C28_FileDescribesMemory ==
    [][(last'.op \in RepositoryOps /\ last'.saves /\ last'.jerr = NoError) =>
          /\ JsonLoad(jfile').err = NoError
          /\ ListedRecords(JsonLoad(jfile').items) = ListedRecords(items')
          /\ \A c \in DOMAIN jcustom' \cup DOMAIN JsonLoad(jfile').custom :
                 CustomGet(JsonLoad(jfile').custom, c) = CustomGet(jcustom', c)]_vars

\* C29: when _save raises inside a mutating call of JSONRepository, the
\* error reaches the caller and the records and custom values in memory are
\* the ones from before the call.
C29_FailedWriteLeavesMemory ==
    [][(last'.op \in RepositoryOps /\ last'.saves /\ last'.stop < Len(SaveSteps)) =>
          /\ last'.jerr = OSError
          /\ items' = items
          /\ jcustom' = jcustom]_vars

----------------------------------------------------------------------------
(* The object types the dialogs offer *)

\* settings.py: DEFAULT_OBJECT_TYPES
DEFAULT_OBJECT_TYPES ==
    << <<"N","o","t","e","b","o","o","k">>, S_PC, <<"T","a","b","l","e","t">>,
       <<"M","o","b","i","l","t","e","l","e","f","o","n">>,
       <<"D","r","u","c","k","e","r">> >>

\* SettingsManager.load_object_types: the defaults and the types stored under
\* OBJECT_TYPES_KEY, which no call of the application ever writes
LoadObjectTypes == DedupValues(DEFAULT_OBJECT_TYPES, {})

\* MainWindow._merge_custom_values(repo_object_types, self.object_types),
\* as a set
ObjectTypeChoices(distinct) ==
    {Strip(v) : v \in {w \in distinct \cup Range(LoadObjectTypes) : Strip(w) # <<>>}}

JsonObjectTypes(its) == ObjectTypeChoices(Range(JsonDistinct(its, "objekttyp")))
SqlObjectTypes(rs) == ObjectTypeChoices(SqlDistinctValues(rs, "objekttyp"))

\* T is registered under its case-insensitive key
Registered(types, T) == \E U \in types : PyLower(U) = PyLower(T)

\* C8: deleting records takes no object type out of the types a backend
\* offers for the dropdown, and no type is offered twice under its
\* case-insensitive key.
C8_ObjectTypeSurvivesDelete ==
    [][last'.op = "delete" =>
          /\ \A T \in JsonObjectTypes(items) : Registered(JsonObjectTypes(items'), T)
          /\ \A T \in SqlObjectTypes(rows) : Registered(SqlObjectTypes(rows'), T)
          /\ \A T, U \in JsonObjectTypes(items') : PyLower(T) = PyLower(U) => T = U
          /\ \A T, U \in SqlObjectTypes(rows') : PyLower(T) = PyLower(U) => T = U]_vars

====
